---------------------------- MODULE Spec2Model ----------------------------
(***************************************************************************)
(* hono-cli-adapter: argv -> URL / body / env -> Request -> app.fetch ->   *)
(* Response -> formatted lines.  Two variants of the adapter exist in the  *)
(* repository: the GET variant (src/src/index.ts) and the POST variant     *)
(* (src/unnamed/part_000).                                                 *)
(*                                                                         *)
(* JavaScript strings are modelled as sequences of one-character strings,  *)
(* so that trimming, splitting, percent-encoding and JSON encoding are     *)
(* computed character by character.  A JavaScript value is a tagged        *)
(* record: [t |-> "str", s |-> chars], [t |-> "bool", b |-> ...],          *)
(* [t |-> "num", n |-> ...], [t |-> "arr", a |-> values], [t |-> "null"],  *)
(* [t |-> "undef"].  A JavaScript object is the sequence of its            *)
(* <<key, value>> entries in property order (keys distinct).               *)
(***************************************************************************)
EXTENDS Integers, Sequences, FiniteSets, TLC

(***************************************************************************)
(* Bounds of the model.                                                    *)
(***************************************************************************)
MaxBaseLen == 3   \* longest options.base drawn for a direct call
MaxSegs == 2      \* most positional segments drawn for a direct call
MaxFlags == 2     \* most flag entries of a directly supplied parsed argv
MaxTokens == 2    \* most KEY=VALUE tokens handed to parseEnvFlags/parseBodyTokens
MaxArgs == 2      \* most raw argv tokens handed to adaptAndFetch/runCliDefault
MaxPaths == 2     \* most paths of an OpenAPI document
MaxRoutes == 5    \* most routes registered on a handler between two listings

(***************************************************************************)
(* Strings.                                                                *)
(***************************************************************************)
RECURSIVE Concat(_)
\* Array.prototype.join('') over a list of strings
Concat(ss) ==
    IF ss = <<>> THEN <<>> ELSE Head(ss) \o Concat(Tail(ss))

RECURSIVE JoinWith(_, _)
\* Array.prototype.join(sep)
JoinWith(ss, sep) ==
    IF ss = <<>> THEN <<>>
    ELSE IF Len(ss) = 1 THEN Head(ss)
    ELSE Head(ss) \o sep \o JoinWith(Tail(ss), sep)

RECURSIVE IndexOfFrom(_, _, _)
IndexOfFrom(s, c, i) ==
    IF i > Len(s) THEN 0
    ELSE IF s[i] = c THEN i
    ELSE IndexOfFrom(s, c, i + 1)

\* String.prototype.indexOf(c), 1-based; 0 when c does not occur (JS: -1)
IndexOf(s, c) == IndexOfFrom(s, c, 1)

\* String.prototype.split over a set of one-character separators
SplitOn(s, seps) ==
    LET RECURSIVE go(_, _, _)
        go(i, cur, acc) ==
            IF i > Len(s) THEN Append(acc, cur)
            ELSE IF s[i] \in seps THEN go(i + 1, <<>>, Append(acc, cur))
            ELSE go(i + 1, Append(cur, s[i]), acc)
    IN  go(1, <<>>, <<>>)

RECURSIVE TrimLeft(_, _)
\* s.replace(/^c+/, '')
TrimLeft(s, c) ==
    IF s # <<>> /\ Head(s) = c THEN TrimLeft(Tail(s), c) ELSE s

RECURSIVE TrimRight(_, _)
\* s.replace(/c+$/, '')
TrimRight(s, c) ==
    IF s # <<>> /\ s[Len(s)] = c THEN TrimRight(SubSeq(s, 1, Len(s) - 1), c) ELSE s

RECURSIVE DigitsOf(_)
\* decimal digits of a natural number
DigitsOf(n) ==
    LET d == <<"0", "1", "2", "3", "4", "5", "6", "7", "8", "9">>
    IN  IF n < 10 THEN <<d[n + 1]>> ELSE DigitsOf(n \div 10) \o <<d[(n % 10) + 1]>>

(***************************************************************************)
(* JavaScript values.                                                      *)
(***************************************************************************)
Str(s) == [t |-> "str", s |-> s]
Bool(b) == [t |-> "bool", b |-> b]
Num(n) == [t |-> "num", n |-> n]
Arr(a) == [t |-> "arr", a |-> a]
Null == [t |-> "null"]
Undef == [t |-> "undef"]

\* v == null (loose): null or undefined
IsNullish(v) == v.t \in {"null", "undef"}

\* String(v) of a scalar
ScalarString(v) ==
    CASE v.t = "str" -> v.s
      [] v.t = "bool" -> IF v.b THEN <<"t", "r", "u", "e">> ELSE <<"f", "a", "l", "s", "e">>
      [] v.t = "num" -> DigitsOf(v.n)
      [] v.t = "null" -> <<"n", "u", "l", "l">>
      [] v.t = "undef" -> <<"u", "n", "d", "e", "f", "i", "n", "e", "d">>

\* String(v): an array is its elements joined by ',', null and undefined
\* elements joining as the empty string
String(v) ==
    IF v.t = "arr"
    THEN JoinWith([i \in 1..Len(v.a) |->
                     IF IsNullish(v.a[i]) THEN <<>> ELSE ScalarString(v.a[i])], <<",">>)
    ELSE ScalarString(v)

(***************************************************************************)
(* JavaScript objects as entry lists.                                      *)
(***************************************************************************)
Keys(obj) == {obj[i][1] : i \in 1..Len(obj)}

HasKey(obj, k) == k \in Keys(obj)

\* obj[k]; undefined when k is no own property
Get(obj, k) ==
    IF HasKey(obj, k)
    THEN obj[CHOOSE i \in 1..Len(obj) : obj[i][1] = k][2]
    ELSE Undef

\* obj[k] = v: an existing property keeps its place, a new one goes last
Put(obj, k, v) ==
    IF HasKey(obj, k)
    THEN [i \in 1..Len(obj) |-> IF obj[i][1] = k THEN <<k, v>> ELSE obj[i]]
    ELSE Append(obj, <<k, v>>)

RECURSIVE FromEntries(_)
\* Object.fromEntries(pairs): a later pair overwrites an earlier one
FromEntries(pairs) ==
    IF pairs = <<>> THEN <<>>
    ELSE LET last == pairs[Len(pairs)]
         IN  Put(FromEntries(SubSeq(pairs, 1, Len(pairs) - 1)), last[1], last[2])

RECURSIVE Spread(_, _)
\* { ...a, ...b }
Spread(a, b) ==
    IF b = <<>> THEN a
    ELSE Spread(Put(a, Head(b)[1], Head(b)[2]), Tail(b))

(***************************************************************************)
(* Percent-encoding (ECMAScript encodeURIComponent, WHATWG URL).           *)
(***************************************************************************)
Letters ==
    {"a", "b", "c", "d", "e", "f", "g", "h", "i", "j", "k", "l", "m", "n", "o",
     "p", "q", "r", "s", "t", "u", "v", "w", "x", "y", "z", "O", "S"}

Digits == {"0", "1", "2", "3", "4", "5", "6", "7", "8", "9"}

\* the two hexadecimal digits of the ASCII code of the other characters in use
PctHex ==
    [c \in {" ", "\"", "#", "%", "&", "+", ",", "/", ":", "=", "?", "\\", "{", "}", "\n"} |->
        CASE c = " " -> <<"2", "0">>
          [] c = "\"" -> <<"2", "2">>
          [] c = "#" -> <<"2", "3">>
          [] c = "%" -> <<"2", "5">>
          [] c = "&" -> <<"2", "6">>
          [] c = "+" -> <<"2", "B">>
          [] c = "," -> <<"2", "C">>
          [] c = "/" -> <<"2", "F">>
          [] c = ":" -> <<"3", "A">>
          [] c = "=" -> <<"3", "D">>
          [] c = "?" -> <<"3", "F">>
          [] c = "\\" -> <<"5", "C">>
          [] c = "{" -> <<"7", "B">>
          [] c = "}" -> <<"7", "D">>
          [] c = "\n" -> <<"0", "A">>]

\* characters encodeURIComponent leaves alone
UriUnreserved == Letters \cup Digits \cup {"-", "_", ".", "!", "~", "*", "'", "(", ")"}

encodeURIComponent(s) ==
    Concat([i \in 1..Len(s) |->
              IF s[i] \in UriUnreserved THEN <<s[i]>> ELSE <<"%">> \o PctHex[s[i]]])

\* the path percent-encode set of the URL standard, among the characters in use
PathEncodeSet == {" ", "\"", "#", "?", "{", "}"}

PathEncode(s) ==
    Concat([i \in 1..Len(s) |->
              IF s[i] \in PathEncodeSet THEN <<"%">> \o PctHex[s[i]] ELSE <<s[i]>>])

IsSingleDot(buf) ==
    buf \in {<<".">>, <<"%", "2", "e">>, <<"%", "2", "E">>}

IsDoubleDot(buf) ==
    \E x, y \in {<<".">>, <<"%", "2", "e">>, <<"%", "2", "E">>} : buf = x \o y

RECURSIVE PathState(_, _)
\* the URL parser's path state over the '/'- or '\'-separated buffers of the
\* input: a double-dot buffer drops the last segment, a single-dot buffer is
\* dropped, and either leaves an empty segment when it ends the input
PathState(bufs, path) ==
    IF bufs = <<>> THEN path
    ELSE LET buf == PathEncode(Head(bufs))
             last == Len(bufs) = 1
             next == IF IsDoubleDot(buf)
                     THEN LET short == IF path = <<>> THEN path
                                       ELSE SubSeq(path, 1, Len(path) - 1)
                          IN  IF last THEN Append(short, <<>>) ELSE short
                     ELSE IF IsSingleDot(buf)
                     THEN IF last THEN Append(path, <<>>) ELSE path
                     ELSE Append(path, buf)
         IN  PathState(Tail(bufs), next)

\* url.pathname = input, then url.pathname read back (special scheme http)
SetPathname(input) ==
    LET rest == IF input # <<>> /\ Head(input) \in {"/", "\\"} THEN Tail(input) ELSE input
        path == PathState(SplitOn(rest, {"/", "\\"}), <<>>)
    IN  Concat([i \in 1..Len(path) |-> <<"/">> \o path[i]])

(***************************************************************************)
(* URLSearchParams: a list of <<name, value>> pairs.                       *)
(***************************************************************************)
\* qs.append(k, v)
QsAppend(qs, k, v) == Append(qs, <<k, v>>)

\* qs.set(k, v): the first pair named k takes v and the others named k go;
\* with no pair named k, a new pair is appended
QsSet(qs, k, v) ==
    IF \E i \in 1..Len(qs) : qs[i][1] = k
    THEN LET first == CHOOSE i \in 1..Len(qs) :
                        qs[i][1] = k /\ \A j \in 1..(i - 1) : qs[j][1] # k
             kept == {i \in 1..Len(qs) : qs[i][1] # k \/ i = first}
             RECURSIVE pick(_)
             pick(i) ==
                 IF i > Len(qs) THEN <<>>
                 ELSE (IF i \in kept
                       THEN <<IF i = first THEN <<k, v>> ELSE qs[i]>>
                       ELSE <<>>) \o pick(i + 1)
         IN  pick(1)
    ELSE Append(qs, <<k, v>>)

\* characters the application/x-www-form-urlencoded serializer leaves alone
FormUnreserved == Letters \cup Digits \cup {"*", "-", ".", "_"}

FormEncode(s) ==
    Concat([i \in 1..Len(s) |->
              IF s[i] \in FormUnreserved THEN <<s[i]>>
              ELSE IF s[i] = " " THEN <<"+">>
              ELSE <<"%">> \o PctHex[s[i]]])

\* qs.toString()
QsToString(qs) ==
    JoinWith([i \in 1..Len(qs) |-> FormEncode(qs[i][1]) \o <<"=">> \o FormEncode(qs[i][2])],
             <<"&">>)

RECURSIVE FormDecode(_)
\* '+' is a space and %XX is the character of that code
FormDecode(s) ==
    IF s = <<>> THEN <<>>
    ELSE IF Head(s) = "+" THEN <<" ">> \o FormDecode(Tail(s))
    ELSE IF Head(s) = "%" /\ Len(s) >= 3
            /\ \E c \in DOMAIN PctHex : PctHex[c] = <<s[2], s[3]>>
    THEN <<CHOOSE c \in DOMAIN PctHex : PctHex[c] = <<s[2], s[3]>> >>
         \o FormDecode(SubSeq(s, 4, Len(s)))
    ELSE <<Head(s)>> \o FormDecode(Tail(s))

\* the pairs of url.searchParams for url.search = search
SearchParams(search) ==
    LET q == IF search # <<>> /\ Head(search) = "?" THEN Tail(search) ELSE search
        NonEmpty(x) == x # <<>>
        parts == SelectSeq(SplitOn(q, {"&"}), NonEmpty)
        pair(x) == LET i == IndexOf(x, "=")
                   IN  IF i = 0 THEN <<FormDecode(x), <<>> >>
                       ELSE <<FormDecode(SubSeq(x, 1, i - 1)),
                              FormDecode(SubSeq(x, i + 1, Len(x)))>>
    IN  [i \in 1..Len(parts) |-> pair(parts[i])]

\* url.search = q (q non-empty, without a leading '?'): the special-query
\* percent-encode set, among the characters in use, is {space, '"', '#'}
SetSearch(q) ==
    <<"?">> \o Concat([i \in 1..Len(q) |->
                         IF q[i] \in {" ", "\"", "#"} THEN <<"%">> \o PctHex[q[i]]
                         ELSE <<q[i]>>])

(***************************************************************************)
(* Property names the adapter reads or reserves.                           *)
(***************************************************************************)
K_pos == <<"_">>
K_tail == <<"-", "-">>
K_base == <<"b", "a", "s", "e">>
K_env == <<"e", "n", "v">>
K_e == <<"e">>
K_json == <<"j", "s", "o", "n">>
K_list == <<"l", "i", "s", "t">>
K_help == <<"h", "e", "l", "p">>
K_h == <<"h">>

DEFAULT_RESERVED == {K_pos, K_tail, K_base, K_env}

\* AdapterOptions.  env and reservedKeys are given as lists, the empty list
\* standing for an absent option as well (the code reads both through ?? {}
\* and ?? []); base is a value, Undef when absent.
NoOptions == [base |-> Undef, env |-> <<>>, reservedKeys |-> <<>>, beforeFetch |-> Undef]

(***************************************************************************)
(* buildUrlFromArgv                                                        *)
(***************************************************************************)
\* join(...parts): trim the slashes at both ends of every part, drop the
\* empty parts, join with '/'
join(parts) ==
    LET NonEmpty(p) == p # <<>>
        trimmed == [i \in 1..Len(parts) |-> TrimRight(TrimLeft(parts[i], "/"), "/")]
    IN  JoinWith(SelectSeq(trimmed, NonEmpty), <<"/">>)

\* argv._ without undefined and null, each String()ed and percent-encoded
PositionalSegs(argv) ==
    LET NotNullish(v) == ~IsNullish(v)
        kept == SelectSeq(Get(argv, K_pos).a, NotNullish)
    IN  [i \in 1..Len(kept) |-> encodeURIComponent(String(kept[i]))]

\* a variant that sets where the code appends: of an array only the last
\* element stays
QueryStep_SetOnly(qs, k, v, reserved) ==
    IF k \in reserved THEN qs
    ELSE IF v.t = "arr"
    THEN IF v.a = <<>> THEN qs ELSE QsSet(qs, k, String(v.a[Len(v.a)]))
    ELSE IF ~IsNullish(v) THEN QsSet(qs, k, String(v))
    ELSE qs

\* one turn of the loop over Object.entries(argv)
QueryStep(qs, k, v, reserved) ==
    IF k \in reserved THEN qs
    ELSE IF v.t = "arr" THEN qs \o [i \in 1..Len(v.a) |-> <<k, String(v.a[i])>>]
    ELSE IF v.t = "bool" THEN QsSet(qs, k, String(v))
    ELSE IF ~IsNullish(v) THEN QsSet(qs, k, String(v))
    ELSE qs

RECURSIVE QueryLoop(_, _, _)
QueryLoop(entries, reserved, qs) ==
    IF entries = <<>> THEN qs
    ELSE QueryLoop(Tail(entries), reserved,
                   QueryStep(qs, Head(entries)[1], Head(entries)[2], reserved))

\* a variant that forgets options.reservedKeys
Reserved_DefaultOnly(options) == DEFAULT_RESERVED

Reserved(options) ==
    {options.reservedKeys[i] : i \in 1..Len(options.reservedKeys)} \cup DEFAULT_RESERVED

buildUrlFromArgv(argv, options) ==
    LET base == IF IsNullish(options.base) THEN <<>> ELSE String(options.base)
        pathname == <<"/">> \o join(<<base>> \o PositionalSegs(argv))
        q == QsToString(QueryLoop(argv, Reserved(options), <<>>))
    IN  [pathname |-> SetPathname(pathname),
         search |-> IF q # <<>> THEN SetSearch(q) ELSE <<>>]

(***************************************************************************)
(* parseEnvFlags / parseBodyTokens                                         *)
(***************************************************************************)
\* ([] as string[]).concat(x || []): undefined and the empty string are
\* falsy and give no token, a string gives one token, an array its elements
TokenList(x) ==
    IF x.t = "undef" \/ (x.t = "str" /\ x.s = <<>>) THEN <<>>
    ELSE IF x.t = "arr" THEN [i \in 1..Len(x.a) |-> x.a[i].s]
    ELSE <<x.s>>

\* the pair of one token: split at the first '=', or the whole token and ''
SplitPair(tok) ==
    LET i == IndexOf(tok, "=")
    IN  IF i = 0 THEN <<tok, Str(<<>>)>>
        ELSE <<SubSeq(tok, 1, i - 1), Str(SubSeq(tok, i + 1, Len(tok)))>>

parseEnvFlags(envFlags) ==
    LET pairs == TokenList(envFlags)
    IN  FromEntries([i \in 1..Len(pairs) |-> SplitPair(pairs[i])])

parseBodyTokens(tokens) ==
    LET pairs == TokenList(tokens)
    IN  FromEntries([i \in 1..Len(pairs) |-> SplitPair(pairs[i])])

(***************************************************************************)
(* JSON.  A JSON object is [t |-> "obj", o |-> entries].  The parser       *)
(* covers the JSON grammar over the characters in use: objects, arrays,    *)
(* strings with the escapes \" \\ \/ \n, natural numbers, true, false,     *)
(* null, and the white space ' ' and newline.                              *)
(***************************************************************************)
Obj(o) == [t |-> "obj", o |-> o]

\* QuoteJSONString
JSONQuote(s) ==
    <<"\"">> \o Concat([i \in 1..Len(s) |->
                          CASE s[i] = "\"" -> <<"\\", "\"">>
                            [] s[i] = "\\" -> <<"\\", "\\">>
                            [] s[i] = "\n" -> <<"\\", "n">>
                            [] OTHER -> <<s[i]>>]) \o <<"\"">>

RECURSIVE JSONSerialize(_, _, _)
\* JSON.stringify(v, null, gap) at the current indentation; gap = <<>> is
\* the compact form JSON.stringify(v)
JSONSerialize(v, gap, indent) ==
    LET inner == indent \o gap
        open(items, l, r) ==
            IF items = <<>> THEN <<l, r>>
            ELSE IF gap = <<>> THEN <<l>> \o JoinWith(items, <<",">>) \o <<r>>
            ELSE <<l, "\n">> \o inner \o JoinWith(items, <<",", "\n">> \o inner)
                 \o <<"\n">> \o indent \o <<r>>
        colon == IF gap = <<>> THEN <<":">> ELSE <<":", " ">>
    IN  CASE v.t = "str" -> JSONQuote(v.s)
          [] v.t = "num" -> DigitsOf(v.n)
          [] v.t = "bool" -> ScalarString(v)
          [] v.t = "null" -> ScalarString(v)
          [] v.t = "arr" ->
                open([i \in 1..Len(v.a) |-> JSONSerialize(v.a[i], gap, inner)], "[", "]")
          [] v.t = "obj" ->
                open([i \in 1..Len(v.o) |->
                        JSONQuote(v.o[i][1]) \o colon \o JSONSerialize(v.o[i][2], gap, inner)],
                     "{", "}")

JSONStringify(v) == JSONSerialize(v, <<>>, <<>>)

JSONStringifyPretty(v) == JSONSerialize(v, <<" ", " ">>, <<>>)

JSONFail == [ok |-> FALSE]

RECURSIVE SkipWs(_, _)
SkipWs(s, i) ==
    IF i <= Len(s) /\ s[i] \in {" ", "\n"} THEN SkipWs(s, i + 1) ELSE i

StartsWith(s, i, w) ==
    i + Len(w) - 1 <= Len(s) /\ SubSeq(s, i, i + Len(w) - 1) = w

RECURSIVE JSONStringBody(_, _, _)
\* the characters of a string literal from position i (after the opening
\* quote) to its closing quote
JSONStringBody(s, i, acc) ==
    IF i > Len(s) \/ s[i] = "\n" THEN JSONFail
    ELSE IF s[i] = "\"" THEN [ok |-> TRUE, v |-> Str(acc), i |-> i + 1]
    ELSE IF s[i] = "\\"
    THEN IF i + 1 <= Len(s) /\ s[i + 1] \in {"\"", "\\", "/", "n"}
         THEN JSONStringBody(s, i + 2,
                             Append(acc, IF s[i + 1] = "n" THEN "\n" ELSE s[i + 1]))
         ELSE JSONFail
    ELSE JSONStringBody(s, i + 1, Append(acc, s[i]))

RECURSIVE JSONDigits(_, _, _)
JSONDigits(s, i, n) ==
    IF i <= Len(s) /\ s[i] \in Digits
    THEN JSONDigits(s, i + 1,
                    10 * n + (CHOOSE d \in 0..9 : DigitsOf(d) = <<s[i]>>))
    ELSE [ok |-> TRUE, v |-> Num(n), i |-> i]

RECURSIVE JSONValue(_, _)
RECURSIVE JSONElements(_, _, _)
RECURSIVE JSONMembers(_, _, _)

\* the value starting at position i, white space before and after skipped
JSONValue(s, i0) ==
    LET i == SkipWs(s, i0)
        after(r) == IF r.ok THEN [r EXCEPT !.i = SkipWs(s, r.i)] ELSE r
    IN  IF i > Len(s) THEN JSONFail
        ELSE IF StartsWith(s, i, <<"t", "r", "u", "e">>)
        THEN after([ok |-> TRUE, v |-> Bool(TRUE), i |-> i + 4])
        ELSE IF StartsWith(s, i, <<"f", "a", "l", "s", "e">>)
        THEN after([ok |-> TRUE, v |-> Bool(FALSE), i |-> i + 5])
        ELSE IF StartsWith(s, i, <<"n", "u", "l", "l">>)
        THEN after([ok |-> TRUE, v |-> Null, i |-> i + 4])
        ELSE IF s[i] = "\"" THEN after(JSONStringBody(s, i + 1, <<>>))
        ELSE IF s[i] = "0" THEN after([ok |-> TRUE, v |-> Num(0), i |-> i + 1])
        ELSE IF s[i] \in Digits THEN after(JSONDigits(s, i, 0))
        ELSE IF s[i] = "["
        THEN LET j == SkipWs(s, i + 1)
             IN  IF j <= Len(s) /\ s[j] = "]"
                 THEN after([ok |-> TRUE, v |-> Arr(<<>>), i |-> j + 1])
                 ELSE after(JSONElements(s, i + 1, <<>>))
        ELSE IF s[i] = "{"
        THEN LET j == SkipWs(s, i + 1)
             IN  IF j <= Len(s) /\ s[j] = "}"
                 THEN after([ok |-> TRUE, v |-> Obj(<<>>), i |-> j + 1])
                 ELSE after(JSONMembers(s, i + 1, <<>>))
        ELSE JSONFail

\* value (',' value)* ']'
JSONElements(s, i, acc) ==
    LET r == JSONValue(s, i)
    IN  IF ~r.ok \/ r.i > Len(s) THEN JSONFail
        ELSE IF s[r.i] = "]" THEN [ok |-> TRUE, v |-> Arr(Append(acc, r.v)), i |-> r.i + 1]
        ELSE IF s[r.i] = "," THEN JSONElements(s, r.i + 1, Append(acc, r.v))
        ELSE JSONFail

\* string ':' value (',' string ':' value)* '}'; a repeated key keeps its
\* place and takes the later value
JSONMembers(s, i0, acc) ==
    LET i == SkipWs(s, i0)
        k == IF i <= Len(s) /\ s[i] = "\"" THEN JSONStringBody(s, i + 1, <<>>) ELSE JSONFail
        c == IF k.ok THEN SkipWs(s, k.i) ELSE 0
        r == IF k.ok /\ c <= Len(s) /\ s[c] = ":" THEN JSONValue(s, c + 1) ELSE JSONFail
    IN  IF ~r.ok \/ r.i > Len(s) THEN JSONFail
        ELSE IF s[r.i] = "}"
        THEN [ok |-> TRUE, v |-> Obj(Put(acc, k.v.s, r.v)), i |-> r.i + 1]
        ELSE IF s[r.i] = "," THEN JSONMembers(s, r.i + 1, Put(acc, k.v.s, r.v))
        ELSE JSONFail

\* JSON.parse(text): [ok |-> TRUE, v |-> value], or [ok |-> FALSE] where
\* JSON.parse throws a SyntaxError
JSONParse(text) ==
    LET r == JSONValue(text, 1)
    IN  IF r.ok /\ r.i = Len(text) + 1 THEN [ok |-> TRUE, v |-> r.v] ELSE JSONFail

(***************************************************************************)
(* minimist(args, opts), as the adapter configures it.  opts is            *)
(* [boolean |-> list of keys, string |-> list of keys,                     *)
(*  alias |-> list of <<short, long>> pairs]; '--': true is always set.    *)
(* Covered: positionals, --key, --key=value, --no-key, -k (one letter),    *)
(* and the '--' separator.  Keys hold no '.', so no nested object arises.  *)
(***************************************************************************)
\* aliases[key]: the other names of key, both directions of opts.alias
AliasesOf(opts, key) ==
    LET Partner(p) == p[1] = key \/ p[2] = key
        ps == SelectSeq(opts.alias, Partner)
    IN  [i \in 1..Len(ps) |-> IF ps[i][1] = key THEN ps[i][2] ELSE ps[i][1]]

\* flags.bools
BoolKeys(opts) == {opts.boolean[i] : i \in 1..Len(opts.boolean)}

\* flags.strings: the string keys and their aliases
StringKeys(opts) ==
    LET own == {opts.string[i] : i \in 1..Len(opts.string)}
    IN  own \cup {a \in UNION {{p[1], p[2]} : p \in {opts.alias[i] : i \in 1..Len(opts.alias)}} :
                    \E k \in own : \E i \in 1..Len(AliasesOf(opts, k)) : AliasesOf(opts, k)[i] = a}

\* aliasIsBoolean(key)
AliasIsBoolean(opts, key) ==
    \E i \in 1..Len(AliasesOf(opts, key)) : AliasesOf(opts, key)[i] \in BoolKeys(opts)

\* isNumber(x), for the texts in use: a non-empty run of digits
IsNumber(s) == s # <<>> /\ \A i \in 1..Len(s) : s[i] \in Digits

\* Number(s) of such a text
ToNumber(s) == JSONDigits(s, 1, 0).v

\* setKey(argv, [key], value): an undefined, boolean-flag or boolean-valued
\* property is overwritten, an array is pushed to, anything else becomes a
\* two-element array
setKey(opts, argv, key, value) ==
    LET cur == Get(argv, key)
    IN  IF cur.t = "undef" \/ key \in BoolKeys(opts) \/ cur.t = "bool"
        THEN Put(argv, key, value)
        ELSE IF cur.t = "arr" THEN Put(argv, key, Arr(Append(cur.a, value)))
        ELSE Put(argv, key, Arr(<<cur, value>>))

RECURSIVE setKeys(_, _, _, _)
setKeys(opts, argv, keys, value) ==
    IF keys = <<>> THEN argv
    ELSE setKeys(opts, setKey(opts, argv, Head(keys), value), Tail(keys), value)

\* setArg(key, val): numeric text of a non-string key becomes a number; the
\* key and then each of its aliases are set
setArg(opts, argv, key, val) ==
    LET value == IF key \notin StringKeys(opts) /\ val.t = "str" /\ IsNumber(val.s)
                 THEN ToNumber(val.s) ELSE val
    IN  setKeys(opts, argv, <<key>> \o AliasesOf(opts, key), value)

\* /^(-|--)[^-]/.test(next)
FlagLike(next) ==
    \/ Len(next) >= 2 /\ next[1] = "-" /\ next[2] # "-"
    \/ Len(next) >= 3 /\ next[1] = "-" /\ next[2] = "-" /\ next[3] # "-"

IsTrueFalse(s) == s \in {<<"t", "r", "u", "e">>, <<"f", "a", "l", "s", "e">>}

\* /^--.+=/.test(arg)
IsLongEq(arg) == StartsWith(arg, 1, <<"-", "-">>) /\ IndexOfFrom(arg, "=", 4) # 0

\* /^--no-.+/.test(arg)
IsLongNo(arg) == StartsWith(arg, 1, <<"-", "-", "n", "o", "-">>) /\ Len(arg) > 5

\* /^--.+/.test(arg)
IsLong(arg) == StartsWith(arg, 1, <<"-", "-">>) /\ Len(arg) > 2

\* /^-[^-]+/.test(arg)
IsShort(arg) == Len(arg) >= 2 /\ arg[1] = "-" /\ arg[2] # "-"

\* a flag without a value: '' for a string key, true otherwise
Bare(opts, key) == IF key \in StringKeys(opts) THEN Str(<<>>) ELSE Bool(TRUE)

RECURSIVE minimistLoop(_, _, _, _)
\* the loop over the arguments before '--'
minimistLoop(opts, args, i, argv) ==
    IF i > Len(args) THEN argv
    ELSE
      LET arg == args[i]
          hasNext == i + 1 <= Len(args)
          next == IF hasNext THEN args[i + 1] ELSE <<>>
          free(key) == ~FlagLike(next) /\ key \notin BoolKeys(opts)
                       /\ (AliasesOf(opts, key) # <<>> => ~AliasIsBoolean(opts, key))
      IN  IF IsLongEq(arg)
          THEN LET e == IndexOfFrom(arg, "=", 3)
                   key == SubSeq(arg, 3, e - 1)
                   text == SubSeq(arg, e + 1, Len(arg))
                   value == IF key \in BoolKeys(opts)
                            THEN Bool(text # <<"f", "a", "l", "s", "e">>)
                            ELSE Str(text)
               IN  minimistLoop(opts, args, i + 1, setArg(opts, argv, key, value))
          ELSE IF IsLongNo(arg)
          THEN minimistLoop(opts, args, i + 1,
                            setArg(opts, argv, SubSeq(arg, 6, Len(arg)), Bool(FALSE)))
          ELSE IF IsLong(arg)
          THEN LET key == SubSeq(arg, 3, Len(arg))
               IN  IF hasNext /\ free(key)
                   THEN minimistLoop(opts, args, i + 2, setArg(opts, argv, key, Str(next)))
                   ELSE IF hasNext /\ IsTrueFalse(next)
                   THEN minimistLoop(opts, args, i + 2,
                                     setArg(opts, argv, key, Bool(next = <<"t", "r", "u", "e">>)))
                   ELSE minimistLoop(opts, args, i + 1,
                                     setArg(opts, argv, key, Bare(opts, key)))
          ELSE IF IsShort(arg)
          THEN LET key == <<arg[Len(arg)]>>
               IN  IF hasNext /\ next # <<>> /\ free(key)
                   THEN minimistLoop(opts, args, i + 2, setArg(opts, argv, key, Str(next)))
                   ELSE IF hasNext /\ IsTrueFalse(next)
                   THEN minimistLoop(opts, args, i + 2,
                                     setArg(opts, argv, key, Bool(next = <<"t", "r", "u", "e">>)))
                   ELSE minimistLoop(opts, args, i + 1,
                                     setArg(opts, argv, key, Bare(opts, key)))
          ELSE LET pos == Get(argv, K_pos).a
                   item == IF IsNumber(arg) THEN ToNumber(arg) ELSE Str(arg)
               IN  minimistLoop(opts, args, i + 1, Put(argv, K_pos, Arr(Append(pos, item))))

RECURSIVE minimistDefaults(_, _, _)
\* every boolean key, and its aliases, starts as false
minimistDefaults(opts, keys, argv) ==
    IF keys = <<>> THEN argv
    ELSE minimistDefaults(opts, Tail(keys), setArg(opts, argv, Head(keys), Bool(FALSE)))

minimist(args, opts) ==
    LET sep == CHOOSE i \in 1..(Len(args) + 1) :
                 /\ i <= Len(args) => args[i] = K_tail
                 /\ \A j \in 1..(i - 1) : args[j] # K_tail
        before == SubSeq(args, 1, sep - 1)
        notFlags == SubSeq(args, sep + 1, Len(args))
        start == minimistDefaults(opts, opts.boolean, <<<<K_pos, Arr(<<>>)>>>>)
        argv == minimistLoop(opts, before, 1, start)
    IN  Put(argv, K_tail, Arr([i \in 1..Len(notFlags) |-> Str(notFlags[i])]))

(***************************************************************************)
(* Requests.  Method, header names and header values are never taken       *)
(* apart by the adapter and are plain strings; a missing body is Undef.    *)
(***************************************************************************)
\* new Request(url, {method, body, headers}): a string body without a
\* content-type header gets text/plain
NewRequest(url, method, body, headers) ==
    [method |-> method,
     url |-> url,
     body |-> body,
     headers |-> IF body.t = "str" /\ ~HasKey(headers, "content-type")
                 THEN Append(headers, <<"content-type", "text/plain;charset=UTF-8">>)
                 ELSE headers]

\* GET variant
buildRequestFromArgv_GET(argv, options) ==
    NewRequest(buildUrlFromArgv(argv, options), "GET", Undef, <<>>)

\* a variant that always sends a JSON body, '{}' when there are no tokens
buildRequestFromArgv_POST_AlwaysBody(argv, options) ==
    NewRequest(buildUrlFromArgv(argv, options), "POST",
               Str(JSONStringify(Obj(parseBodyTokens(Get(argv, K_tail))))),
               <<<<"content-type", "application/json">>>>)

\* POST variant: the tokens of argv['--'] become a JSON body when they give
\* at least one key
buildRequestFromArgv_POST(argv, options) ==
    LET url == buildUrlFromArgv(argv, options)
        bodyObj == parseBodyTokens(Get(argv, K_tail))
        hasBody == Len(bodyObj) > 0
        body == IF hasBody THEN Str(JSONStringify(Obj(bodyObj))) ELSE Undef
        headers == IF hasBody THEN <<<<"content-type", "application/json">>>> ELSE <<>>
    IN  NewRequest(url, "POST", body, headers)

buildRequestFromArgv(variant, argv, options) ==
    IF variant = "GET" THEN buildRequestFromArgv_GET(argv, options)
    ELSE buildRequestFromArgv_POST(argv, options)

(***************************************************************************)
(* The environment handed to app.fetch.                                    *)
(***************************************************************************)
\* a variant of the GET merge that starts from the process environment
mergedEnv_GET_WithProcess(processEnv, options, envFromFlags) ==
    Spread(Spread(Spread(<<>>, processEnv), options.env), envFromFlags)

\* a variant of the POST merge in which options.env is spread last
mergedEnv_POST_OptionsLast(processEnv, options, envFromFlags) ==
    Spread(Spread(Spread(<<>>, processEnv), envFromFlags), options.env)

\* GET variant: { ...(options.env ?? {}), ...envFromFlags }
mergedEnv_GET(processEnv, options, envFromFlags) ==
    Spread(Spread(<<>>, options.env), envFromFlags)

\* POST variant: { ...process.env, ...(options.env ?? {}), ...envFromFlags }
mergedEnv_POST(processEnv, options, envFromFlags) ==
    Spread(Spread(Spread(<<>>, processEnv), options.env), envFromFlags)

mergedEnv(variant, processEnv, options, envFromFlags) ==
    IF variant = "GET" THEN mergedEnv_GET(processEnv, options, envFromFlags)
    ELSE mergedEnv_POST(processEnv, options, envFromFlags)

\* the minimist options of adaptAndFetch
AdaptOpts ==
    [boolean |-> <<>>, string |-> <<K_base, K_env>>, alias |-> <<<<K_e, K_env>>>>]

\* the minimist options of runCliDefault
RunOpts ==
    [boolean |-> <<K_json, K_list, K_help>>,
     string |-> <<K_base, K_env>>,
     alias |-> <<<<K_h, K_help>>, <<K_e, K_env>>>>]

\* JavaScript truthiness
Truthy(v) ==
    CASE v.t = "bool" -> v.b
      [] v.t = "str" -> v.s # <<>>
      [] v.t = "num" -> v.n # 0
      [] v.t \in {"arr", "obj"} -> TRUE
      [] OTHER -> FALSE

\* runCliDefault: argv.list || argv.help
ListMode(argvRaw) ==
    LET argv == minimist(argvRaw, RunOpts)
    IN  Truthy(Get(argv, K_list)) \/ Truthy(Get(argv, K_help))

\* the options runCliDefault hands to adaptAndFetch
DispatchOptions(argvRaw, options) ==
    [base |-> Get(minimist(argvRaw, RunOpts), K_base),
     env |-> options.env,
     reservedKeys |-> <<K_json, K_list, K_help>> \o options.reservedKeys,
     beforeFetch |-> options.beforeFetch]

(***************************************************************************)
(* The command name and the beforeFetch hook.                              *)
(*                                                                         *)
(* options.beforeFetch is Undef, a function [t |-> "fn"], or a table       *)
(* [t |-> "table", entries |-> keys], the list of the table's own keys,    *)
(* each holding a hook function of its own.                                *)
(***************************************************************************)
\* commandFromArgv: the first '/'-separated part of the built URL's pathname
\* after its leading slashes, undefined when that part is empty
commandFromArgv(argv, options) ==
    LET url == buildUrlFromArgv(argv, options)
        seg == SplitOn(TrimLeft(url.pathname, "/"), {"/"})[1]
    IN  IF seg = <<>> THEN Undef ELSE Str(seg)

HookFn == [t |-> "fn"]
HookTable(keys) == [t |-> "table", entries |-> keys]

\* the property names every object inherits from Object.prototype that the
\* model tells apart: Object itself, a function that returns a string, a
\* function that throws when called without a receiver, and the prototype
\* object, which is no function
P_constructor == <<"c", "o", "n", "s", "t", "r", "u", "c", "t", "o", "r">>
P_toString == <<"t", "o", "S", "t", "r", "i", "n", "g">>
P_valueOf == <<"v", "a", "l", "u", "e", "O", "f">>
P_proto == <<"_", "_", "p", "r", "o", "t", "o", "_", "_">>
ObjectPrototypeKeys == {P_constructor, P_toString, P_valueOf, P_proto}

\* before[cmd]: the table's own entry, else what Object.prototype holds
\* under that name, else undefined
TableLookup(before, cmd) ==
    IF \E i \in 1..Len(before.entries) : before.entries[i] = cmd
    THEN [t |-> "hook", kind |-> "entry", key |-> cmd]
    ELSE IF cmd \in ObjectPrototypeKeys
    THEN [t |-> "hook", kind |-> "inherited", key |-> cmd]
    ELSE Undef

\* resolveBeforeFetch: the function itself, or the table's entry for
\* commandFromArgv(argv), which is called without options
resolveBeforeFetch(before, argv, options) ==
    IF IsNullish(before) THEN Undef
    ELSE IF before.t = "fn" THEN [t |-> "hook", kind |-> "function", key |-> <<>>]
    ELSE LET cmd == commandFromArgv(argv, NoOptions)
         IN  IF cmd.t = "str" THEN TableLookup(before, cmd.s) ELSE Undef

\* new Request(req, { headers }) with x-test set, as a hook may return it
HookRequest(request) ==
    [request EXCEPT !.headers = Append(request.headers, <<"x-test", "ok">>)]

\* what `await hook(req, argv)` may give: a new Request, undefined, a value
\* that is no Request, or an exception.  An inherited function is fixed:
\* Object(req, argv) is req itself, Object.prototype.toString() is a
\* string, Object.prototype.valueOf() without a receiver throws, and so
\* does the call of before['__proto__'], which is no function.
HookOutcomes(hook, request) ==
    IF hook.kind = "inherited"
    THEN CASE hook.key = P_constructor -> {[t |-> "request", v |-> request]}
           [] hook.key = P_toString -> {[t |-> "value", v |-> Str(<<"[", "o", "]">>)]}
           [] OTHER -> {[t |-> "throw", v |-> <<"T", "y", "p", "e", "E", "r", "r", "o", "r">>]}
    ELSE {[t |-> "request", v |-> HookRequest(request)],
          [t |-> "undef", v |-> Undef],
          [t |-> "value", v |-> Str(<<"x">>)],
          [t |-> "value", v |-> Obj(<<>>)],
          [t |-> "throw", v |-> <<"h", "o", "o", "k">>]}

\* a variant that takes whatever the hook returns, unless it is undefined
AfterHook_AnyValue(request, outcome) ==
    IF outcome.t \in {"request", "value"} THEN outcome.v ELSE request

\* if (maybe instanceof Request) req = maybe
AfterHook(request, outcome) ==
    IF outcome.t = "request" THEN outcome.v ELSE request

(***************************************************************************)
(* Route listing and command examples.                                     *)
(***************************************************************************)
\* a variant that lists the routes of every method
listRoutes_AllMethods(variant, app) ==
    LET routes == IF app = Null \/ IsNullish(app.routes) THEN <<>> ELSE app.routes.a
        Route(r) == r # Null
        all == SelectSeq(routes, Route)
    IN  [i \in 1..Len(all) |-> all[i].path]

\* listGetRoutes / listPostRoutes: app is Null or has routes, an array of
\* [method, path] and Null entries, or Undef when the handler has no registry
listRoutes(variant, app) ==
    LET routes == IF app = Null \/ IsNullish(app.routes) THEN <<>> ELSE app.routes.a
        Mine(r) == r # Null /\ r.method = variant
        mine == SelectSeq(routes, Mine)
    IN  [i \in 1..Len(mine) |-> mine[i].path]

routePathToCommandSegments(routePath) ==
    LET NonEmpty(x) == x # <<>>
        segs == SelectSeq(SplitOn(TrimLeft(routePath, "/"), {"/"}), NonEmpty)
    IN  [i \in 1..Len(segs) |->
           IF Head(segs[i]) = ":" THEN <<"<">> \o Tail(segs[i]) \o <<">">> ELSE segs[i]]

buildCommandExample(routePath, cmdBase) ==
    LET segs == routePathToCommandSegments(routePath)
    IN  cmdBase \o (IF segs # <<>> THEN <<" ">> \o JoinWith(segs, <<" ">>) ELSE <<>>)

buildCommandExamples(routes, cmdBase) ==
    [i \in 1..Len(routes) |-> buildCommandExample(routes[i], cmdBase)]

\* detectCommandBase over the runtime's name (basename of argv[0]), the
\* basename of execPath and the script path relative to the working directory
detectCommandBase(runtime, execBase, scriptRel) ==
    LET node == <<"n", "o", "d", "e">>
        bun == <<"b", "u", "n">>
        cli == <<" ", "c", "l", "i", ".", "m", "j", "s">>
    IN  IF runtime = node
        THEN IF scriptRel # <<>> THEN node \o <<" ">> \o scriptRel ELSE node \o cli
        ELSE IF runtime = bun
        THEN IF execBase # <<>> /\ execBase # bun THEN execBase
             ELSE IF scriptRel # <<>> THEN bun \o <<" ">> \o scriptRel ELSE bun \o cli
        ELSE IF runtime # <<>> THEN runtime
        ELSE IF execBase # <<>> THEN execBase
        ELSE <<"h", "o", "n", "o", "-", "e", "x", "a", "m", "p", "l", "e">>

listCommandExamples(variant, app, cmdBase) ==
    buildCommandExamples(listRoutes(variant, app), cmdBase)

(***************************************************************************)
(* Introspection of an OpenAPI document.                                   *)
(*                                                                         *)
(* A document is [paths |-> Undef or an entry list <<rawPath, item>>]; an  *)
(* item is Null or [parameters, post]; post is Undef, Null or              *)
(* (each object with the tag t |-> "obj" of a JavaScript value)            *)
(* [parameters, body], body being Undef or [ctype, schema] for the one     *)
(* media type of requestBody.content; a schema is Undef or                 *)
(* [type, properties, required], properties an entry list <<name, prop>>.  *)
(***************************************************************************)
RECURSIVE BracesToColons(_)
\* String(rawPath).replace(/\{(.*?)\}/g, ':$1')
BracesToColons(s) ==
    IF s = <<>> THEN <<>>
    ELSE IF Head(s) = "{" /\ \E j \in 2..Len(s) : s[j] = "}"
    THEN LET j == CHOOSE x \in 2..Len(s) : s[x] = "}" /\ \A k \in 2..(x - 1) : s[k] # "}"
         IN  <<":">> \o SubSeq(s, 2, j - 1) \o BracesToColons(SubSeq(s, j + 1, Len(s)))
    ELSE <<Head(s)>> \o BracesToColons(Tail(s))

\* a variant that fills in a missing required with false
ParamDescriptor_RequiredDefaulted(p) ==
    [name |-> p.name, in |-> p.in,
     required |-> IF IsNullish(p.required) THEN Bool(FALSE) ELSE p.required,
     description |-> p.description, schema |-> p.schema]

\* the descriptor collect() pushes for a declared parameter
ParamDescriptor(p) ==
    [name |-> p.name, in |-> p.in, required |-> p.required,
     description |-> p.description, schema |-> p.schema]

\* collect(arr): one descriptor per element of arr || []
collect(arr) ==
    IF IsNullish(arr) THEN <<>> ELSE [i \in 1..Len(arr.a) |-> ParamDescriptor(arr.a[i])]

K_appjson == "application/json"

\* post.requestBody?.content?.['application/json']?.schema
BodySchema(post) ==
    IF IsNullish(post.body) THEN Undef
    ELSE IF post.body.ctype # K_appjson THEN Undef
    ELSE post.body.schema

\* the descriptors of the properties of an object-typed schema
BodyParams(schema) ==
    IF ~IsNullish(schema) /\ schema.type = "object" /\ ~IsNullish(schema.properties)
    THEN LET required == IF IsNullish(schema.required) THEN <<>> ELSE schema.required.a
         IN  [i \in 1..Len(schema.properties.o) |->
                [name |-> schema.properties.o[i][1], in |-> "body",
                 required |-> Bool(\E j \in 1..Len(required) :
                                      required[j] = schema.properties.o[i][1]),
                 description |-> schema.properties.o[i][2].description,
                 schema |-> schema.properties.o[i][2]]]
    ELSE <<>>

\* a variant that collects the operation's parameters before the path item's
ParamList_OperationFirst(item) ==
    collect(item.post.parameters) \o collect(item.parameters)
    \o BodyParams(BodySchema(item.post))

\* paramList of one post-bearing path item
ParamList(item) ==
    collect(item.parameters) \o collect(item.post.parameters)
    \o BodyParams(BodySchema(item.post))

\* a variant that gives every parameter a flag, whatever its location
OpenApiExample_AllParams(route, paramList, base) ==
    LET segs == routePathToCommandSegments(route)
    IN  base \o (IF segs # <<>> THEN <<" ">> \o JoinWith(segs, <<" ">>) ELSE <<>>)
        \o Concat([i \in 1..Len(paramList) |->
                     <<" ", "-", "-">> \o paramList[i].name \o <<" ", "<">>
                     \o paramList[i].name \o <<">">>])

\* the example of one route: the command, then --name <name> for every
\* query and body parameter
OpenApiExample(route, paramList, base) ==
    LET segs == routePathToCommandSegments(route)
        Shown(p) == p.in \in {"query", "body"}
        shown == SelectSeq(paramList, Shown)
    IN  base \o (IF segs # <<>> THEN <<" ">> \o JoinWith(segs, <<" ">>) ELSE <<>>)
        \o Concat([i \in 1..Len(shown) |->
                     <<" ", "-", "-">> \o shown[i].name \o <<" ", "<">> \o shown[i].name
                     \o <<">">>])

\* the entries of paths the loop does not skip: those whose item has a
\* truthy post
PostBearing(paths) ==
    LET HasPost(e) == ~IsNullish(e[2]) /\ ~IsNullish(e[2].post)
    IN  SelectSeq(paths, HasPost)

\* a variant that records the route before it looks for the post operation
listRoutesWithExamplesFromOpenApi_RouteFirst(openapi, cmdBase) ==
    LET paths == IF IsNullish(openapi.paths) THEN <<>> ELSE openapi.paths.o
        kept == PostBearing(paths)
        route(i) == BracesToColons(kept[i][1])
    IN  [routes |-> [i \in 1..Len(paths) |-> BracesToColons(paths[i][1])],
         examples |-> [i \in 1..Len(kept) |->
                         OpenApiExample(route(i), ParamList(kept[i][2]), cmdBase)],
         params |-> [i \in 1..Len(kept) |-> ParamList(kept[i][2])]]

listRoutesWithExamplesFromOpenApi(openapi, cmdBase) ==
    LET paths == IF IsNullish(openapi.paths) THEN <<>> ELSE openapi.paths.o
        kept == PostBearing(paths)
        route(i) == BracesToColons(kept[i][1])
    IN  [routes |-> [i \in 1..Len(kept) |-> route(i)],
         examples |-> [i \in 1..Len(kept) |->
                         OpenApiExample(route(i), ParamList(kept[i][2]), cmdBase)],
         params |-> [i \in 1..Len(kept) |-> ParamList(kept[i][2])]]

(***************************************************************************)
(* Formatting of runCliDefault.                                            *)
(***************************************************************************)
K_status == <<"s", "t", "a", "t", "u", "s">>
K_data == <<"d", "a", "t", "a">>

\* a variant that prints the compact JSON.stringify(obj)
FormatLines_Compact(json, status, text) ==
    IF json
    THEN LET parsed == JSONParse(text)
             data == IF parsed.ok THEN parsed.v ELSE Str(text)
         IN  <<JSONStringify(Obj(<<<<K_status, Num(status)>>, <<K_data, data>>>>))>>
    ELSE <<text>>

\* a variant that gives one line per newline-separated line of the text
FormatLines_Split(json, status, text) ==
    IF json
    THEN LET parsed == JSONParse(text)
             data == IF parsed.ok THEN parsed.v ELSE Str(text)
         IN  <<JSONStringifyPretty(Obj(<<<<K_status, Num(status)>>, <<K_data, data>>>>))>>
    ELSE SplitOn(text, {"\n"})

\* the lines of dispatch mode: with --json one pretty-printed {status, data},
\* data being the parsed body or, when JSON.parse throws, the text; without
\* --json the text
FormatLines(json, status, text) ==
    IF json
    THEN LET parsed == JSONParse(text)
             data == IF parsed.ok THEN parsed.v ELSE Str(text)
         IN  <<JSONStringifyPretty(Obj(<<<<K_status, Num(status)>>, <<K_data, data>>>>))>>
    ELSE <<text>>

\* a variant that takes status 200 for success
ExitCode_Only200(res) == IF res.status = 200 THEN 0 ELSE 1

\* code: res.ok ? 0 : 1
ExitCode(res) == IF res.ok THEN 0 ELSE 1

\* new Response(text, {status}): ok is status in 200..299
Response(status, text) ==
    [status |-> status, ok |-> (status >= 200 /\ status <= 299), text |-> text]

(***************************************************************************)
(* Inputs.                                                                 *)
(***************************************************************************)
RECURSIVE SeqsUpTo(_, _)
\* the sequences over S of length at most n
SeqsUpTo(S, n) ==
    IF n = 0 THEN {<<>>}
    ELSE LET shorter == SeqsUpTo(S, n - 1)
         IN  shorter \cup {Append(q, x) : q \in {r \in shorter : Len(r) = n - 1}, x \in S}

Variants == {"GET", "POST"}

\* options.base of a direct call: absent, or a string of slashes, dots and a letter
BaseInputs == {Undef} \cup {Str(b) : b \in SeqsUpTo({"a", "/", "."}, MaxBaseLen)}

\* the bases drawn together with every list of positional segments
ShortBases == {Undef, Str(<<"a">>), Str(<<"/", "a", "/">>)}

\* the elements of argv._ of a direct call
PosValues ==
    {Str(<<"a">>), Str(<<"b", "/", "c">>), Str(<<".">>), Str(<<>>), Num(7), Null}

\* flag names and flag values of a directly supplied parsed argv
FlagKeys == {<<"q">>, K_env, K_base, K_json}

FlagValues ==
    {Str(<<"a">>), Str(<<>>), Bool(TRUE), Bool(FALSE), Num(7), Null,
     Arr(<<Str(<<"a">>), Str(<<"b", " ", "&">>)>>), Arr(<<>>)}

FlagLists ==
    {f \in SeqsUpTo(FlagKeys \X FlagValues, MaxFlags) :
        \A i, j \in 1..Len(f) : i # j => f[i][1] # f[j][1]}

ReservedInputs == {<<>>, <<<<"q">>>>, <<K_json, <<"q">>>>}

\* KEY=VALUE tokens
PairTokens ==
    {<<>>, <<"k">>, <<"k", "=">>, <<"k", "=", "v">>, <<"=", "v">>,
     <<"k", "=", "v", "=", "w">>, <<"j", "=", "\"">>}

\* what parseEnvFlags / parseBodyTokens may be handed: nothing, one token,
\* or a list of tokens
TokenInputs ==
    {Undef} \cup {Str(t) : t \in PairTokens}
    \cup {Arr([i \in 1..Len(ts) |-> Str(ts[i])]) : ts \in SeqsUpTo(PairTokens, MaxTokens)}

\* raw command-line arguments
A_hi == <<"h", "i">>
A_json == <<"-", "-", "j", "s", "o", "n">>
A_list == <<"-", "-", "l", "i", "s", "t">>
A_nolist == <<"-", "-", "l", "i", "s", "t", "=", "f", "a", "l", "s", "e">>
A_h == <<"-", "h">>
A_help == <<"-", "-", "h", "e", "l", "p">>
A_q == <<"-", "-", "q", "=", "x">>
A_e == <<"-", "e">>
A_env == <<"-", "-", "e", "n", "v">>
A_kv == <<"k", "=", "v">>
A_jw == <<"j", "=", "w">>
A_base == <<"-", "-", "b", "a", "s", "e">>
A_basev == <<"-", "-", "b", "a", "s", "e", "=", "/", "v", "/">>

RawTokens ==
    {A_hi, A_json, A_list, A_h, A_q, A_e, A_env, A_kv, K_tail, A_basev}

\* the command lines of at most MaxArgs arguments, and some longer ones
RawArgvs ==
    SeqsUpTo(RawTokens, MaxArgs)
    \cup {<<A_help>>, <<A_hi, A_q, A_help, K_tail, A_kv>>,
          <<A_nolist>>, <<A_nolist, A_hi>>, <<A_hi, A_nolist>>, <<A_list, A_nolist>>,
          <<A_base>>, <<A_base, A_hi>>, <<A_hi, A_base>>, <<A_base, A_q>>,
          <<A_json, A_hi, <<"7">>, A_q>>,
          <<A_hi, <<"a", " ", "b">>, A_json, K_tail, A_kv, A_jw>>,
          <<A_base, <<"v">>, A_hi, <<"-", "-", "q">>, <<"x">>, <<"-", "-", "q">>, <<"y">>>>,
          <<A_hi, <<"-", "-", "n", "o", "-", "h", "e", "l", "p">>, A_json, A_q, A_e, A_kv>>}

\* command lines that set environment flags
EnvArgvs ==
    {<<>>, <<A_e, A_kv>>, <<A_env, A_kv, A_e, A_jw>>, <<A_e, A_jw, A_env, <<"j", "=">>>>,
     <<A_env>>, <<A_hi, A_env, <<"k">>>>}

E_k == <<"k">>
E_j == <<"j">>
E_p == <<"p">>

OptionEnvs ==
    {<<>>, <<<<E_k, Str(<<"o">>)>>>>, <<<<E_j, Str(<<"o">>)>>, <<E_p, Str(<<"o">>)>>>>}

ProcessEnvs ==
    {<<>>, <<<<E_k, Str(<<"s">>)>>>>, <<<<E_p, Str(<<"s">>)>>, <<E_j, Str(<<"s">>)>>>>}

\* command lines with and without a --base flag, for a caller that gives
\* options.base
BaseArgvs == {<<A_hi>>, <<A_basev, A_hi>>, <<A_hi, A_base, <<"w">>>>, <<A_json>>}

\* what a dispatching call is given: the command line, the caller's options
\* and the process environment
DispatchInputs ==
    {[argvRaw |-> a, options |-> NoOptions, processEnv |-> <<<<E_p, Str(<<"s">>)>>>>] :
        a \in RawArgvs}
    \cup
    {[argvRaw |-> a, options |-> [NoOptions EXCEPT !.reservedKeys = <<<<"q">>>>],
      processEnv |-> <<>>] :
        a \in {<<A_q>>, <<A_json, A_q, <<"-", "-", "r">>>>,
                <<<<"-", "-", "q">>, A_hi, <<"-", "-", "r">>>>}}
    \cup
    {[argvRaw |-> a, options |-> [NoOptions EXCEPT !.env = o], processEnv |-> e] :
        a \in EnvArgvs, o \in OptionEnvs, e \in ProcessEnvs}
    \cup
    {[argvRaw |-> a, options |-> [NoOptions EXCEPT !.base = b], processEnv |-> <<>>] :
        a \in BaseArgvs, b \in {Str(<<"/", "v">>), Str(<<"a", "p", "i">>)}}

\* command lines and hook configurations for the beforeFetch hook: the
\* table keys 'u' and 'o', positionals that the URL changes ('.', 'a b'),
\* and names every object inherits
T_u == <<"u">>
T_o == <<"o">>
T_ab == <<"a", " ", "b">>
T_abenc == <<"a", "%", "2", "0", "b">>

HookArgvs ==
    {<<>>, <<T_u>>, <<T_u, T_o>>, <<T_o, T_u>>, <<<<".">>, T_u>>, <<T_ab>>, <<A_json, T_u>>,
     <<A_h, T_u>>, <<<<"z">>>>, <<P_constructor>>, <<P_toString>>, <<P_valueOf>>, <<P_proto>>,
     <<A_basev, T_u>>, <<T_u, K_tail, A_kv>>}

BeforeFetches == {HookFn, HookTable(<<T_u, T_o>>), HookTable(<<T_ab, T_abenc>>)}

HookInputs ==
    {[argvRaw |-> a, options |-> [NoOptions EXCEPT !.beforeFetch = h, !.base = b],
      processEnv |-> <<>>] :
        a \in HookArgvs, h \in BeforeFetches, b \in {Undef, Str(<<"/", "v">>)}}

\* what a call of runCliAndExit is given, and whether the runtime has
\* process.stdout.write and process.exit
ExitInputs ==
    {[argvRaw |-> a, options |-> NoOptions, processEnv |-> <<>>, hasStdout |-> o,
      hasExit |-> x] :
        a \in {<<A_hi>>, <<A_list>>, <<A_h, A_hi>>, <<A_json, A_q>>},
        o \in BOOLEAN, x \in BOOLEAN}

\* the errors the handler may throw
FetchErrors == {<<"b", "o", "o", "m">>, <<"4", "0", "4">>}

\* OpenAPI documents: parameters, schemas, path items and paths
OA_string == [type |-> "string", description |-> Undef]
OA_id ==
    [name |-> <<"i", "d">>, in |-> "path", required |-> Bool(TRUE),
     description |-> Str(<<"u", "i", "d">>), schema |-> OA_string, example |-> Num(7)]
OA_em ==
    [name |-> <<"e", "m">>, in |-> "query", required |-> Bool(TRUE),
     description |-> Undef, schema |-> OA_string, example |-> Undef]
OA_hd ==
    [name |-> <<"h", "d">>, in |-> "header", required |-> Undef,
     description |-> Undef, schema |-> Undef, example |-> Undef]
OA_age == <<<<"a", "g", "e">>, [type |-> "integer", description |-> Str(<<"a">>)]>>
OA_nick == <<<<"n", "i", "c", "k">>, OA_string>>

OA_schema(type, properties, required) ==
    [t |-> "obj", type |-> type, properties |-> properties, required |-> required]

OA_item(parameters, post) == [t |-> "obj", parameters |-> parameters, post |-> post]
OA_post(parameters, ctype, schema) ==
    [t |-> "obj", parameters |-> parameters,
     body |-> [t |-> "obj", ctype |-> ctype, schema |-> schema]]

OA_Entries ==
    {<<<<"/", "u", "/", "{", "i", "d", "}">>,
       OA_item(Arr(<<OA_id>>),
               OA_post(Arr(<<OA_em, OA_hd>>), K_appjson,
                       OA_schema("object", Obj(<<OA_age, OA_nick>>), Arr(<<OA_nick[1]>>))))>>,
     <<<<"/", "u", "/", "{", "i", "d", "}">>, OA_item(Arr(<<OA_id>>), Null)>>,
     <<<<"/", "{", "b", "}", "/", "{", "c", "}">>,
       OA_item(Arr(<<OA_em, OA_id>>),
               OA_post(Undef, K_appjson, OA_schema("object", Obj(<<OA_nick, OA_age>>), Undef)))>>,
     <<<<"/", "p">>, OA_item(Undef, [t |-> "obj", parameters |-> Undef, body |-> Undef])>>,
     <<<<"/", "p">>, Null>>,
     <<<<"/">>,
       OA_item(Undef, OA_post(Arr(<<OA_em>>), "text/plain",
                              OA_schema("object", Obj(<<OA_age>>), Arr(<<OA_age[1]>>))))>>,
     <<<<"/", "o">>,
       OA_item(Undef, OA_post(Arr(<<OA_id>>), K_appjson, OA_schema("object", Undef, Undef)))>>,
     <<<<"/", "f", "{", "i", "d", "}">>,
       OA_item(Arr(<<OA_id>>),
               OA_post(Undef, K_appjson,
                       OA_schema("array", Obj(<<OA_age>>), Arr(<<OA_age[1]>>))))>>}

\* documents of at most MaxPaths paths, each path once, and a document
\* without paths
OpenApiDocs ==
    {[paths |-> Undef]}
    \cup {[paths |-> Obj(d)] :
            d \in {e \in SeqsUpTo(OA_Entries, MaxPaths) :
                      \A i, j \in 1..Len(e) : i # j => e[i][1] # e[j][1]}}

C_cmd == <<"c", "m", "d">>

\* the handler's registered routes
R_hello == <<"/", "h", "i", "/", ":", "n">>
R_ping == <<"/", "p">>

Apps ==
    {[routes |-> Arr(<<[method |-> "GET", path |-> R_hello],
                       [method |-> "POST", path |-> R_ping],
                       [method |-> "GET", path |-> <<"/">>],
                       [method |-> "POST", path |-> R_hello]>>)],
     [routes |-> Undef]}

\* the handlers whose routes are listed directly: those above, no handler,
\* an empty registry, and a registry that holds an entry that is no route
ListApps ==
    Apps \cup {Null, [routes |-> Arr(<<>>)],
               [routes |-> Arr(<<[method |-> "POST", path |-> R_ping], Null,
                                 [method |-> "GET", path |-> R_ping]>>)]}

\* the routes registered between two listings
NewRoutes ==
    {[method |-> "POST", path |-> <<"/", "n">>], [method |-> "GET", path |-> <<"/", "n">>],
     [method |-> "PUT", path |-> R_ping]}

\* the responses of the handler
T_json == <<"{", "\"", "o", "k", "\"", ":", "t", "r", "u", "e", "}">>
T_pong == <<"p", "o", "n", "g">>
T_lines == <<"a", "\n", "b", "\n">>
T_jstr == <<"\"", "n", "o", "\"">>

Responses ==
    {Response(200, T_json), Response(200, T_pong), Response(204, <<>>),
     Response(404, T_lines), Response(500, T_jstr)}

\* the process as detectCommandBase() sees it
CmdBase == detectCommandBase(<<"n", "o", "d", "e">>, <<"n", "o", "d", "e">>, <<"c", ".", "j", "s">>)

(***************************************************************************)
(* The state: one call of the library at a time.                           *)
(***************************************************************************)
VARIABLES
    pc,        \* "idle", "registered" (a route was registered after a listing),
               \* "hook" (a beforeFetch hook pending), "fetch" (app.fetch
               \* pending), "text" (res.text() pending), "write" (runCliAndExit
               \* printing), "done" (the call returned), "failed" (the call
               \* threw), "exited" (process.exit ended the process)
    call,      \* the function called and its arguments
    built,     \* the Request buildRequestFromArgv built for the dispatch
    hooks,     \* the beforeFetch hooks invoked, each with what it gave
    req,       \* the Request handed to app.fetch
    env,       \* the environment handed to app.fetch
    res,       \* the Response app.fetch resolved to
    fetches,   \* how often app.fetch was invoked
    raised,    \* the error the handler or a hook threw
    cli,       \* inside runCliAndExit: what runCliDefault returned
    proc,      \* the process: what was written and whether it was ended
    ret        \* the value the call returned, or the error it threw

vars == <<pc, call, built, hooks, req, env, res, fetches, raised, cli, proc, ret>>

None == [t |-> "none"]

NotRaised == [by |-> "none", error |-> <<>>]

\* a process that wrote nothing and still runs
FreshProcess ==
    [stdout |-> <<>>, stderr |-> <<>>, console |-> <<>>, exited |-> FALSE, code |-> 0]

Thrown(e) == [t |-> "thrown", error |-> e]

Init ==
    /\ pc = "idle"
    /\ call = [fn |-> "none"]
    /\ built = None
    /\ hooks = <<>>
    /\ req = None
    /\ env = None
    /\ res = None
    /\ fetches = 0
    /\ raised = NotRaised
    /\ cli = None
    /\ proc = FreshProcess
    /\ ret = None

\* buildUrlFromArgv(argv, options), called directly: either the path inputs
\* vary or the flag inputs do
CallBuildUrl ==
    /\ pc = "idle"
    /\ \E in \in
            {[pos |-> p, flags |-> <<>>, base |-> b, reservedKeys |-> <<>>] :
                p \in SeqsUpTo(PosValues, MaxSegs), b \in ShortBases}
            \cup
            {[pos |-> p, flags |-> <<>>, base |-> b, reservedKeys |-> <<>>] :
                p \in {<<>>, <<Str(<<"a">>)>>}, b \in BaseInputs}
            \cup
            {[pos |-> <<>>, flags |-> f, base |-> Undef, reservedKeys |-> r] :
                f \in FlagLists, r \in ReservedInputs} :
         LET argv == <<<<K_pos, Arr(in.pos)>>>> \o in.flags
             options == [NoOptions EXCEPT !.base = in.base,
                                          !.reservedKeys = in.reservedKeys]
         IN  /\ call' = [fn |-> "buildUrlFromArgv", argv |-> argv, options |-> options]
             /\ ret' = buildUrlFromArgv(argv, options)
    /\ pc' = "done"
    /\ UNCHANGED <<built, hooks, req, env, res, fetches, raised, cli, proc>>

\* commandFromArgv(argv, options), called directly
CallCommandFromArgv ==
    /\ pc = "idle"
    /\ \E p \in SeqsUpTo(PosValues, MaxSegs), b \in ShortBases :
         LET argv == <<<<K_pos, Arr(p)>>>>
             options == [NoOptions EXCEPT !.base = b]
         IN  /\ call' = [fn |-> "commandFromArgv", argv |-> argv, options |-> options]
             /\ ret' = commandFromArgv(argv, options)
    /\ pc' = "done"
    /\ UNCHANGED <<built, hooks, req, env, res, fetches, raised, cli, proc>>

CallParseEnvFlags ==
    /\ pc = "idle"
    /\ \E x \in TokenInputs :
         /\ call' = [fn |-> "parseEnvFlags", tokens |-> x]
         /\ ret' = Obj(parseEnvFlags(x))
    /\ pc' = "done"
    /\ UNCHANGED <<built, hooks, req, env, res, fetches, raised, cli, proc>>

CallParseBodyTokens ==
    /\ pc = "idle"
    /\ \E x \in TokenInputs :
         /\ call' = [fn |-> "parseBodyTokens", tokens |-> x]
         /\ ret' = Obj(parseBodyTokens(x))
    /\ pc' = "done"
    /\ UNCHANGED <<built, hooks, req, env, res, fetches, raised, cli, proc>>

\* buildRequestFromArgv(argv, options), called directly with an argv as
\* minimist gives it with '--': true
CallBuildRequest ==
    /\ pc = "idle"
    /\ \E v \in Variants, ts \in SeqsUpTo(PairTokens, MaxTokens), p \in SeqsUpTo({Str(<<"a">>)}, 1) :
         LET argv == <<<<K_pos, Arr(p)>>, <<K_tail, Arr([i \in 1..Len(ts) |-> Str(ts[i])])>>>>
         IN  /\ call' = [fn |-> "buildRequestFromArgv", variant |-> v, argv |-> argv,
                         options |-> NoOptions]
             /\ ret' = buildRequestFromArgv(v, argv, NoOptions)
    /\ pc' = "done"
    /\ UNCHANGED <<built, hooks, req, env, res, fetches, raised, cli, proc>>

\* listRoutesWithExamplesFromOpenApi(openapi, cmdBase), called directly
CallOpenApi ==
    /\ pc = "idle"
    /\ \E doc \in OpenApiDocs :
         /\ call' = [fn |-> "listRoutesWithExamplesFromOpenApi", openapi |-> doc,
                     cmdBase |-> C_cmd]
         /\ ret' = listRoutesWithExamplesFromOpenApi(doc, C_cmd)
    /\ pc' = "done"
    /\ UNCHANGED <<built, hooks, req, env, res, fetches, raised, cli, proc>>

\* a variant that lists a handler's routes once and hands out the same
\* list from then on
CallListRoutes_Cached ==
    /\ pc \in {"idle", "registered"}
    /\ \E v \in Variants, app \in (IF pc = "idle" THEN ListApps ELSE {call.app}) :
         /\ call' = [fn |-> "listRoutes", variant |-> v, app |-> app]
         /\ ret' = IF pc = "idle" THEN Arr(listRoutes(v, app)) ELSE ret
    /\ pc' = "done"
    /\ UNCHANGED <<built, hooks, req, env, res, fetches, raised, cli, proc>>

\* listGetRoutes(app) / listPostRoutes(app), called directly: on a handler
\* of the inputs, or again on the handler of the last listing after a
\* route was registered
CallListRoutes ==
    /\ pc \in {"idle", "registered"}
    /\ \E v \in Variants, app \in (IF pc = "idle" THEN ListApps ELSE {call.app}) :
         /\ call' = [fn |-> "listRoutes", variant |-> v, app |-> app]
         /\ ret' = Arr(listRoutes(v, app))
    /\ pc' = "done"
    /\ UNCHANGED <<built, hooks, req, env, res, fetches, raised, cli, proc>>

\* app.get(path, ...) / app.post(path, ...) after a listing: the handler's
\* registry grows by one route
RegisterRoute ==
    /\ pc = "done"
    /\ call.fn = "listRoutes"
    /\ call.app # Null
    /\ ~IsNullish(call.app.routes)
    /\ Len(call.app.routes.a) < MaxRoutes
    /\ \E r \in NewRoutes :
         call' = [call EXCEPT !.app.routes.a = Append(@, r)]
    /\ pc' = "registered"
    /\ UNCHANGED <<built, hooks, req, env, res, fetches, raised, cli, proc, ret>>

\* the hook adaptAndFetch resolves; the GET variant has none
ResolvedHook(variant, argv, options) ==
    IF variant = "POST" THEN resolveBeforeFetch(options.beforeFetch, argv, options) ELSE Undef

\* adaptAndFetch from its await of the hook, or without a hook, up to its
\* await of app.fetch(req, mergedEnv)
ToFetch(variant, argvRaw, options, processEnv, request) ==
    /\ req' = request
    /\ env' = mergedEnv(variant, processEnv, options,
                        parseEnvFlags(Get(minimist(argvRaw, AdaptOpts), K_env)))
    /\ fetches' = fetches + 1
    /\ pc' = "fetch"

\* a variant that starts app.fetch before it awaits the hook
Dispatch_FetchFirst(variant, argvRaw, options, processEnv) ==
    LET argv == minimist(argvRaw, AdaptOpts)
        request == buildRequestFromArgv(variant, argv, options)
        hook == ResolvedHook(variant, argv, options)
    IN  /\ built' = request
        /\ req' = request
        /\ env' = mergedEnv(variant, processEnv, options, parseEnvFlags(Get(argv, K_env)))
        /\ fetches' = fetches + 1
        /\ IF IsNullish(hook)
           THEN pc' = "fetch" /\ UNCHANGED hooks
           ELSE /\ hooks' = Append(hooks, [kind |-> hook.kind, key |-> hook.key,
                                            outcome |-> None])
                /\ pc' = "hook"

\* adaptAndFetch up to its first await: of the resolved hook, or of
\* app.fetch when there is none
Dispatch(variant, argvRaw, options, processEnv) ==
    LET argv == minimist(argvRaw, AdaptOpts)
        request == buildRequestFromArgv(variant, argv, options)
        hook == ResolvedHook(variant, argv, options)
    IN  /\ built' = request
        /\ IF IsNullish(hook)
           THEN /\ ToFetch(variant, argvRaw, options, processEnv, request)
                /\ UNCHANGED hooks
           ELSE /\ hooks' = Append(hooks, [kind |-> hook.kind, key |-> hook.key,
                                            outcome |-> None])
                /\ pc' = "hook"
                /\ UNCHANGED <<req, env, fetches>>

\* the options of the pending adaptAndFetch
InnerOptions ==
    IF call.fn = "adaptAndFetch" THEN call.options
    ELSE DispatchOptions(call.argvRaw, call.options)

\* the GET variant's options have no beforeFetch
InputFits(variant, in) == IsNullish(in.options.beforeFetch) \/ variant = "POST"

CallAdaptAndFetch ==
    /\ pc = "idle"
    /\ \E v \in Variants, in \in DispatchInputs \cup HookInputs :
         /\ InputFits(v, in)
         /\ call' = [fn |-> "adaptAndFetch", variant |-> v, argvRaw |-> in.argvRaw,
                     options |-> in.options, processEnv |-> in.processEnv, app |-> None]
         /\ Dispatch(v, in.argvRaw, in.options, in.processEnv)
    /\ UNCHANGED <<res, raised, cli, proc, ret>>

\* list mode: { code: 0, lines }
ListResult(variant, app) ==
    [code |-> 0, lines |-> listCommandExamples(variant, app, CmdBase),
     req |-> None, res |-> None]

\* runCliDefault: list mode returns at once, dispatch mode goes through
\* adaptAndFetch
CallRunCliDefault ==
    /\ pc = "idle"
    /\ \E v \in Variants, in \in DispatchInputs \cup HookInputs, app \in Apps :
         /\ InputFits(v, in)
         \* the runCliDefault of both variants passes argv.base, never options.base
         /\ IsNullish(in.options.beforeFetch) \/ IsNullish(in.options.base)
         \* the registry is read in list mode only
         /\ ListMode(in.argvRaw) \/ app.routes.t = "arr"
         /\ call' = [fn |-> "runCliDefault", variant |-> v, argvRaw |-> in.argvRaw,
                     options |-> in.options, processEnv |-> in.processEnv, app |-> app]
         /\ IF ListMode(in.argvRaw)
            THEN /\ ret' = ListResult(v, app)
                 /\ pc' = "done"
                 /\ UNCHANGED <<built, hooks, req, env, fetches>>
            ELSE /\ Dispatch(v, in.argvRaw, DispatchOptions(in.argvRaw, in.options),
                             in.processEnv)
                 /\ UNCHANGED ret
    /\ UNCHANGED <<res, raised, cli, proc>>

\* runCliAndExit: awaits runCliDefault, then prints and exits
CallRunCliAndExit ==
    /\ pc = "idle"
    /\ \E v \in Variants, in \in ExitInputs, app \in Apps :
         /\ ListMode(in.argvRaw) \/ app.routes.t = "arr"
         /\ call' = [fn |-> "runCliAndExit", variant |-> v, argvRaw |-> in.argvRaw,
                     options |-> in.options, processEnv |-> in.processEnv, app |-> app,
                     hasStdout |-> in.hasStdout, hasExit |-> in.hasExit]
         /\ IF ListMode(in.argvRaw)
            THEN /\ cli' = ListResult(v, app)
                 /\ pc' = "write"
                 /\ UNCHANGED <<built, hooks, req, env, fetches>>
            ELSE /\ Dispatch(v, in.argvRaw, DispatchOptions(in.argvRaw, in.options),
                             in.processEnv)
                 /\ UNCHANGED cli
    /\ UNCHANGED <<res, raised, proc, ret>>

\* the hook returns or resolves: the request is replaced when the outcome
\* is a Request, and adaptAndFetch goes on to app.fetch
HookReturn ==
    /\ pc = "hook"
    /\ \E o \in HookOutcomes(hooks[Len(hooks)], built) :
         /\ o.t # "throw"
         /\ hooks' = [hooks EXCEPT ![Len(hooks)].outcome = o]
         /\ ToFetch(call.variant, call.argvRaw, InnerOptions, call.processEnv,
                    AfterHook(built, o))
    /\ UNCHANGED <<call, built, res, raised, cli, proc, ret>>

\* the hook throws or rejects: the error leaves the call
HookThrow ==
    /\ pc = "hook"
    /\ \E o \in HookOutcomes(hooks[Len(hooks)], built) :
         /\ o.t = "throw"
         /\ hooks' = [hooks EXCEPT ![Len(hooks)].outcome = o]
         /\ raised' = [by |-> "hook", error |-> o.v]
         /\ ret' = Thrown(o.v)
    /\ pc' = "failed"
    /\ UNCHANGED <<call, built, req, env, res, fetches, cli, proc>>

\* app.fetch resolves: adaptAndFetch returns { req, res }, runCliDefault goes
\* on to await res.text()
FetchResolve ==
    /\ pc = "fetch"
    /\ \E r \in Responses : res' = r
    /\ IF call.fn = "adaptAndFetch"
       THEN pc' = "done" /\ ret' = [req |-> req, res |-> res']
       ELSE pc' = "text" /\ UNCHANGED ret
    /\ UNCHANGED <<call, built, hooks, req, env, fetches, raised, cli, proc>>

\* a variant that catches the handler's error and reports exit code 1
FetchReject_Caught ==
    /\ pc = "fetch"
    /\ \E e \in FetchErrors :
         /\ raised' = [by |-> "fetch", error |-> e]
         /\ ret' = [code |-> 1, lines |-> <<e>>, req |-> req, res |-> None]
    /\ pc' = "done"
    /\ UNCHANGED <<call, built, hooks, req, env, res, fetches, cli, proc>>

\* app.fetch throws or rejects: nothing catches the error, it leaves
\* adaptAndFetch and, through their awaits, runCliDefault and runCliAndExit
FetchReject ==
    /\ pc = "fetch"
    /\ \E e \in FetchErrors :
         /\ raised' = [by |-> "fetch", error |-> e]
         /\ ret' = Thrown(e)
    /\ pc' = "failed"
    /\ UNCHANGED <<call, built, hooks, req, env, res, fetches, cli, proc>>

\* what runCliDefault returns in dispatch mode
DispatchResult ==
    LET json == Truthy(Get(minimist(call.argvRaw, RunOpts), K_json))
    IN  [code |-> ExitCode(res),
         lines |-> FormatLines(json, res.status, res.text),
         req |-> req, res |-> res]

\* a variant of runCliDefault that prints its lines itself
ReadText_Printing ==
    /\ pc = "text"
    /\ IF call.fn = "runCliDefault"
       THEN pc' = "done" /\ ret' = DispatchResult /\ UNCHANGED cli
       ELSE pc' = "write" /\ cli' = DispatchResult /\ UNCHANGED ret
    /\ proc' = [proc EXCEPT !.stdout = @ \o DispatchResult.lines]
    /\ UNCHANGED <<call, built, hooks, req, env, res, fetches, raised>>

\* a variant that dispatches once more when the response is not ok
ReadText_Retry ==
    /\ pc = "text"
    /\ IF ExitCode(res) # 0
       THEN pc' = "fetch" /\ fetches' = fetches + 1 /\ UNCHANGED <<ret, cli>>
       ELSE /\ UNCHANGED fetches
            /\ IF call.fn = "runCliDefault"
               THEN pc' = "done" /\ ret' = DispatchResult /\ UNCHANGED cli
               ELSE pc' = "write" /\ cli' = DispatchResult /\ UNCHANGED ret
    /\ UNCHANGED <<call, built, hooks, req, env, res, raised, proc>>

\* res.text() resolves: runCliDefault formats and returns, to its caller or
\* to runCliAndExit
ReadText ==
    /\ pc = "text"
    /\ IF call.fn = "runCliDefault"
       THEN pc' = "done" /\ ret' = DispatchResult /\ UNCHANGED cli
       ELSE pc' = "write" /\ cli' = DispatchResult /\ UNCHANGED ret
    /\ UNCHANGED <<call, built, hooks, req, env, res, fetches, raised, proc>>

\* how many of the lines runCliAndExit has printed
Printed == Len(proc.stdout) + Len(proc.console)

\* one turn of the printing loop: process.stdout.write(String(l) + '\n'), or
\* console.log(String(l)) where process.stdout.write is missing
WriteLine ==
    /\ pc = "write"
    /\ Printed < Len(cli.lines)
    /\ proc' = IF call.hasStdout
               THEN [proc EXCEPT !.stdout = Append(@, cli.lines[Printed + 1] \o <<"\n">>)]
               ELSE [proc EXCEPT !.console = Append(@, cli.lines[Printed + 1])]
    /\ UNCHANGED <<pc, call, built, hooks, req, env, res, fetches, raised, cli, ret>>

\* a variant that exits as soon as runCliDefault has returned
ProcessExit_Early ==
    /\ pc = "write"
    /\ call.hasExit
    /\ proc' = [proc EXCEPT !.exited = TRUE, !.code = cli.code]
    /\ pc' = "exited"
    /\ UNCHANGED <<call, built, hooks, req, env, res, fetches, raised, cli, ret>>

\* after the loop: process.exit(code) ends the process
ProcessExit ==
    /\ pc = "write"
    /\ Printed = Len(cli.lines)
    /\ call.hasExit
    /\ proc' = [proc EXCEPT !.exited = TRUE, !.code = cli.code]
    /\ pc' = "exited"
    /\ UNCHANGED <<call, built, hooks, req, env, res, fetches, raised, cli, ret>>

\* after the loop, where process.exit is missing: return code
ReturnCode ==
    /\ pc = "write"
    /\ Printed = Len(cli.lines)
    /\ ~call.hasExit
    /\ ret' = Num(cli.code)
    /\ pc' = "done"
    /\ UNCHANGED <<call, built, hooks, req, env, res, fetches, raised, cli, proc>>

Next ==
    \/ CallBuildUrl
    \/ CallCommandFromArgv
    \/ CallParseEnvFlags
    \/ CallParseBodyTokens
    \/ CallBuildRequest
    \/ CallOpenApi
    \/ CallListRoutes
    \/ RegisterRoute
    \/ CallAdaptAndFetch
    \/ CallRunCliDefault
    \/ CallRunCliAndExit
    \/ HookReturn
    \/ HookThrow
    \/ FetchResolve
    \/ FetchReject
    \/ ReadText
    \/ WriteLine
    \/ ProcessExit
    \/ ReturnCode

Spec == Init /\ [][Next]_vars

(***************************************************************************)
(* Properties.                                                             *)
(***************************************************************************)
\* the names of the query parameters of a URL, as url.searchParams gives them
QueryNames(url) ==
    LET ps == SearchParams(url.search) IN {ps[i][1] : i \in 1..Len(ps)}

SetOf(list) == {list[i] : i \in 1..Len(list)}

Dispatching == call.fn \in {"adaptAndFetch", "runCliDefault"} /\ req # None

\* C1: the URL built by buildUrlFromArgv has no query parameter named '_',
\* '--', 'base', 'env' or by a member of options.reservedKeys; the URL
\* dispatched by adaptAndFetch likewise, and the URL dispatched by
\* runCliDefault has, in addition, none named 'json', 'list' or 'help'.
C1_ReservedKeysNotInQuery ==
    /\ (call.fn = "buildUrlFromArgv" /\ pc = "done") =>
          QueryNames(ret) \cap (DEFAULT_RESERVED \cup SetOf(call.options.reservedKeys)) = {}
    /\ Dispatching =>
          QueryNames(req.url) \cap (DEFAULT_RESERVED \cup SetOf(call.options.reservedKeys)) = {}
    /\ (Dispatching /\ call.fn = "runCliDefault") =>
          QueryNames(req.url) \cap {K_json, K_list, K_help} = {}

\* C1 witness: runCliDefault dispatched a URL with a query from a command
\* line that sets json and a flag the caller reserved
C1_Witness ==
    /\ call.fn = "runCliDefault" /\ pc = "fetch"
    /\ req.url.search # <<>>
    /\ Truthy(Get(minimist(call.argvRaw, AdaptOpts), K_json))
    /\ \E k \in SetOf(call.options.reservedKeys) :
          Truthy(Get(minimist(call.argvRaw, AdaptOpts), k))

DirectUrl == call.fn = "buildUrlFromArgv" /\ pc = "done"

\* the path components of a pathname: the '/'-separated parts after the
\* leading slash
Components(pathname) == SplitOn(Tail(pathname), {"/"})

\* C2 (as claimed): the pathname is '/' followed by the slash-join of the
\* trimmed base and the percent-encoded positionals in order; it starts with
\* '/', is '/' when base and positionals are empty, and has no empty
\* component.
C2_PathnameIsSlashJoin ==
    DirectUrl =>
        LET base == call.options.base
            B == IF IsNullish(base) THEN <<>> ELSE TrimRight(TrimLeft(base.s, "/"), "/")
            Given(v) == ~IsNullish(v)
            S == SelectSeq(Get(call.argv, K_pos).a, Given)
            NonEmpty(x) == x # <<>>
            parts == SelectSeq(<<B>> \o [i \in 1..Len(S) |-> encodeURIComponent(String(S[i]))],
                               NonEmpty)
        IN  /\ ret.pathname = <<"/">> \o JoinWith(parts, <<"/">>)
            /\ Head(ret.pathname) = "/"
            /\ (B = <<>> /\ S = <<>>) => ret.pathname = <<"/">>
            /\ ret.pathname = <<"/">>
               \/ \A i \in 1..Len(Components(ret.pathname)) :
                     Components(ret.pathname)[i] # <<>>

\* what C3 expects of one flag
C3_Pairs(k, v, reserved) ==
    IF k \in reserved THEN <<>>
    ELSE CASE v.t = "arr" -> [j \in 1..Len(v.a) |-> <<k, String(v.a[j])>>]
           [] v.t = "bool" ->
                <<<<k, IF v.b THEN <<"t", "r", "u", "e">> ELSE <<"f", "a", "l", "s", "e">>>>>>
           [] v.t \in {"null", "undef"} -> <<>>
           [] OTHER -> <<<<k, String(v)>>>>

\* C3: the query of the built URL holds, for the non-reserved flags in the
\* order of the argv mapping: one pair per element of a sequence value (key
\* repeated, order kept), one pair "true"/"false" for a boolean, one pair
\* with the string form for any other non-null value, none for a null value.
C3_QueryProjection ==
    DirectUrl =>
        SearchParams(ret.search) =
            Concat([i \in 1..Len(call.argv) |->
                      C3_Pairs(call.argv[i][1], call.argv[i][2],
                               DEFAULT_RESERVED \cup SetOf(call.options.reservedKeys))])

\* C3 witness: a two-element sequence flag followed by a boolean flag, none
\* reserved, gave three pairs
C3_Witness ==
    /\ DirectUrl
    /\ Len(call.argv) = 3
    /\ call.argv[2][2].t = "arr" /\ Len(call.argv[2][2].a) = 2
    /\ call.argv[3][2].t = "bool"
    /\ Len(SearchParams(ret.search)) = 3

\* the --env flags of the dispatched command line
EnvFromFlags == parseEnvFlags(Get(minimist(call.argvRaw, AdaptOpts), K_env))

\* C4: POST variant: for every key the environment handed to app.fetch has
\* the --env value if a flag sets it, else the options.env value if
\* options.env sets it, else the process environment's value if present,
\* else no such key.
C4_PostEnvPrecedence ==
    (Dispatching /\ call.variant = "POST") =>
        \A k \in Keys(env) \cup Keys(EnvFromFlags) \cup Keys(call.options.env)
                 \cup Keys(call.processEnv) :
            IF HasKey(EnvFromFlags, k)
            THEN HasKey(env, k) /\ Get(env, k) = Get(EnvFromFlags, k)
            ELSE IF HasKey(call.options.env, k)
            THEN HasKey(env, k) /\ Get(env, k) = Get(call.options.env, k)
            ELSE HasKey(env, k) /\ Get(env, k) = Get(call.processEnv, k)

\* C4 witness: one key set at all three levels took the flag's value, one
\* set by options.env and the process took the option's, one set by the
\* process alone survived
C4_Witness ==
    /\ Dispatching /\ call.variant = "POST"
    /\ \E k \in Keys(EnvFromFlags) \cap Keys(call.options.env) \cap Keys(call.processEnv) :
          Get(env, k) # Get(call.options.env, k)
    /\ \E k \in (Keys(call.options.env) \cap Keys(call.processEnv)) \ Keys(EnvFromFlags) :
          Get(env, k) # Get(call.processEnv, k)

\* C5: GET variant: the environment handed to app.fetch is options.env
\* overlaid by the --env flags and holds no key of the process environment
\* alone; it is the same whatever the process environment is.
C5_GetEnvNoProcess ==
    (Dispatching /\ call.variant = "GET") =>
        /\ Keys(env) = Keys(EnvFromFlags) \cup Keys(call.options.env)
        /\ \A k \in Keys(env) :
              Get(env, k) = IF HasKey(EnvFromFlags, k) THEN Get(EnvFromFlags, k)
                            ELSE Get(call.options.env, k)

\* C5 witness: the process environment sets a key that neither options.env
\* nor a flag sets, and a flag overrides options.env
C5_Witness ==
    /\ Dispatching /\ call.variant = "GET"
    /\ Keys(call.processEnv) \ Keys(env) # {}
    /\ \E k \in Keys(EnvFromFlags) \cap Keys(call.options.env) :
          Get(env, k) # Get(call.options.env, k)

\* the tokens of a parseEnvFlags / parseBodyTokens input, read as the claim
\* reads it: an absent input has none, a string is one token, a list its
\* elements
C6_Tokens(x) ==
    CASE x.t = "undef" -> <<>>
      [] x.t = "str" -> <<x.s>>
      [] x.t = "arr" -> [i \in 1..Len(x.a) |-> x.a[i].s]

\* the key of a token: its text before the first '=', or all of it
C6_Key(tok) ==
    IF \E i \in 1..Len(tok) : tok[i] = "="
    THEN SubSeq(tok, 1, (CHOOSE i \in 1..Len(tok) :
                           tok[i] = "=" /\ \A j \in 1..(i - 1) : tok[j] # "=") - 1)
    ELSE tok

\* the value of a token: its text after the first '=', or ''
C6_Value(tok) ==
    IF \E i \in 1..Len(tok) : tok[i] = "="
    THEN SubSeq(tok, Len(C6_Key(tok)) + 2, Len(tok))
    ELSE <<>>

\* C6 (as claimed): parseEnvFlags and parseBodyTokens give the mapping whose
\* keys are the tokens' texts before their first '=' (the whole text of a
\* token without '='), each key with the value of the last token that has
\* it, '' for a token without '='; an absent list gives the empty mapping.
C6_TokensToMapping ==
    (call.fn \in {"parseEnvFlags", "parseBodyTokens"} /\ pc = "done") =>
        LET toks == C6_Tokens(call.tokens)
        IN  /\ Keys(ret.o) = {C6_Key(toks[i]) : i \in 1..Len(toks)}
            /\ \A i \in 1..Len(toks) :
                  (\A j \in (i + 1)..Len(toks) : C6_Key(toks[j]) # C6_Key(toks[i]))
                      => Get(ret.o, C6_Key(toks[i])) = Str(C6_Value(toks[i]))

\* C7: the POST variant's buildRequestFromArgv gives a POST request; it has
\* a body and the header content-type: application/json exactly when the
\* tokens after '--' give a non-empty mapping, and the body then is JSON
\* text that decodes to exactly that mapping.
C7_PostBody ==
    (call.fn = "buildRequestFromArgv" /\ call.variant = "POST" /\ pc = "done") =>
        LET mapping == parseBodyTokens(Get(call.argv, K_tail))
        IN  /\ ret.method = "POST"
            /\ (ret.body.t = "str") <=> (mapping # <<>>)
            /\ HasKey(ret.headers, "content-type") <=> (mapping # <<>>)
            /\ mapping # <<>> =>
                  /\ ret.headers = <<<<"content-type", "application/json">>>>
                  /\ JSONParse(ret.body.s) = [ok |-> TRUE, v |-> Obj(mapping)]

\* C7 witness: two tokens with different keys gave a body with two members
C7_Witness ==
    /\ call.fn = "buildRequestFromArgv" /\ call.variant = "POST" /\ pc = "done"
    /\ ret.body.t = "str"
    /\ Len(parseBodyTokens(Get(call.argv, K_tail))) = 2

C7_Witness_NoBody ==
    /\ call.fn = "buildRequestFromArgv" /\ call.variant = "POST" /\ pc = "done"
    /\ ret.body.t = "undef"

RunDone == call.fn = "runCliDefault" /\ pc = "done"

\* the json flag as runCliDefault's own parse sees it
JsonFlag == Truthy(Get(minimist(call.argvRaw, RunOpts), K_json))

\* C8: the exit code of runCliDefault is 0 or 1: 0 in list mode, and in
\* dispatch mode 0 exactly when the response's ok is true, whatever the
\* json flag and the body are.
C8_ExitCode ==
    RunDone =>
        /\ ret.code \in {0, 1}
        /\ ListMode(call.argvRaw) => ret.code = 0
        /\ ~ListMode(call.argvRaw) => (ret.code = 0 <=> ret.res.ok)

\* C8 witness: with the json flag set and a body that is JSON, a response
\* that is not ok gave code 1
C8_Witness ==
    /\ RunDone /\ ~ListMode(call.argvRaw)
    /\ JsonFlag /\ JSONParse(res.text).ok
    /\ ~res.ok /\ ret.code = 1

\* the line the specification gives for status 200 and the body {"ok":true}
C9_Line200 ==
    <<"{", "\n",
      " ", " ", "\"", "s", "t", "a", "t", "u", "s", "\"", ":", " ", "2", "0", "0", ",", "\n",
      " ", " ", "\"", "d", "a", "t", "a", "\"", ":", " ", "{", "\n",
      " ", " ", " ", " ", "\"", "o", "k", "\"", ":", " ", "t", "r", "u", "e", "\n",
      " ", " ", "}", "\n",
      "}">>

\* C9: in dispatch mode with the json flag, lines is one line, the 2-space
\* pretty-printed JSON of {status, data}: status the response status, data
\* the parsed body when the body is JSON and the body text otherwise; a
\* body that is not JSON neither fails the call nor changes the exit code.
C9_JsonLine ==
    /\ (RunDone /\ ~ListMode(call.argvRaw) /\ JsonFlag) =>
          LET body == JSONParse(res.text)
              shown == JSONParse(ret.lines[1])
          IN  /\ Len(ret.lines) = 1
              /\ shown.ok
              /\ shown.v = Obj(<<<<K_status, Num(res.status)>>,
                                 <<K_data, IF body.ok THEN body.v ELSE Str(res.text)>>>>)
              /\ ret.lines[1] = JSONStringifyPretty(shown.v)
              /\ (res.status = 200 /\ res.text = T_json) => ret.lines[1] = C9_Line200
              /\ ret.code = IF res.ok THEN 0 ELSE 1
    /\ (call.fn = "runCliDefault" /\ pc = "failed") => res = None

\* C9 witness: the json flag is set and the body is not JSON
C9_Witness ==
    /\ RunDone /\ ~ListMode(call.argvRaw) /\ JsonFlag
    /\ ~JSONParse(res.text).ok
    /\ res.text # <<>>

\* C10: in dispatch mode without the json flag, lines has exactly one
\* element, the response body text unchanged.
C10_RawLine ==
    (RunDone /\ ~ListMode(call.argvRaw) /\ ~JsonFlag) =>
        Len(ret.lines) = 1 /\ ret.lines[1] = res.text

\* C10 witness: a body of two newline-terminated lines came out as one line
C10_Witness ==
    /\ RunDone /\ ~ListMode(call.argvRaw) /\ ~JsonFlag
    /\ Cardinality({i \in 1..Len(res.text) : res.text[i] = "\n"}) = 2
    /\ ret.lines = <<res.text>>

C10_Witness_Empty ==
    /\ RunDone /\ ~ListMode(call.argvRaw) /\ ~JsonFlag
    /\ res.text = <<>> /\ ret.lines = <<<<>>>>


RECURSIVE StartsAt(_, _, _)
\* sub occurs in s at index i
StartsAt(s, sub, i) ==
    sub = <<>> \/ (i <= Len(s) /\ s[i] = Head(sub) /\ StartsAt(s, Tail(sub), i + 1))

\* s.includes(sub)
Contains(s, sub) == \E i \in 1..(Len(s) + 1) : StartsAt(s, sub, i)

\* the arguments of a command line before its first '--'
BeforeTail(argvRaw) ==
    IF \E i \in 1..Len(argvRaw) : argvRaw[i] = K_tail
    THEN SubSeq(argvRaw, 1, (CHOOSE i \in 1..Len(argvRaw) :
                               argvRaw[i] = K_tail /\ \A j \in 1..(i - 1) : argvRaw[j] # K_tail) - 1)
    ELSE argvRaw

\* the command line asks for the list: --list, --help or -h stands before
\* '--' and no later argument takes it back
C11_Flagged(argvRaw) ==
    LET args == BeforeTail(argvRaw)
    IN  \/ \E i \in 1..Len(args) :
              /\ args[i] = A_list
              /\ \A j \in (i + 1)..Len(args) : args[j] # A_nolist
        \/ \E i \in 1..Len(args) :
              /\ args[i] \in {A_help, A_h}
              /\ \A j \in (i + 1)..Len(args) :
                    args[j] # <<"-", "-", "n", "o", "-", "h", "e", "l", "p">>

\* the command example of each registered route
C11_Line(path) ==
    CASE path = R_hello -> <<"n", "o", "d", "e", " ", "c", ".", "j", "s", " ", "h", "i", " ", "<", "n", ">">>
      [] path = R_ping -> <<"n", "o", "d", "e", " ", "c", ".", "j", "s", " ", "p">>
      [] path = <<"/">> -> <<"n", "o", "d", "e", " ", "c", ".", "j", "s">>

C12_HelpListsGlobalFlags ==
    (call.fn = "runCliDefault" /\ pc = "done" /\ call.argvRaw = <<A_help>>) =>
        /\ \E i \in 1..Len(ret.lines) : ret.lines[i] = <<"F", "l", "a", "g", "s", ":">>
        /\ \E i \in 1..Len(ret.lines) : Contains(ret.lines[i], A_json)

\* the first positional of the command line as adaptAndFetch parses it
FirstPositional ==
    LET pos == Get(minimist(call.argvRaw, AdaptOpts), K_pos).a
    IN  IF pos = <<>> THEN Undef ELSE Str(String(pos[1]))

HookCall ==
    /\ call.fn = "adaptAndFetch"
    /\ ~IsNullish(call.options.beforeFetch)

\* C13 (as claimed): with a keyed table as options.beforeFetch,
\* adaptAndFetch invokes at most one hook, and only the table's entry keyed
\* by the first positional of argv, with or without a base; the request
\* that hook returns is the one handed to app.fetch and returned as req.
C13_TableHook ==
    (HookCall /\ call.options.beforeFetch.t = "table") =>
        /\ Len(hooks) <= 1
        /\ \A i \in 1..Len(hooks) :
              /\ hooks[i].kind = "entry"
              /\ FirstPositional = Str(hooks[i].key)
        /\ \A i \in 1..Len(hooks) :
              (hooks[i].outcome.t = "request" /\ pc \in {"fetch", "done"}) =>
                  /\ req = hooks[i].outcome.v
                  /\ pc = "done" => ret.req = hooks[i].outcome.v

\* the outcome of the hook that was invoked
HookOutcome == hooks[Len(hooks)].outcome

\* C14: when the resolved hook gives anything that is not a Request,
\* undefined included, the request handed to app.fetch is the built request
\* unchanged; only a returned Request replaces it.
C14_NonRequestKeepsBuilt ==
    (call.fn \in {"adaptAndFetch", "runCliDefault"} /\ hooks # <<>>
       /\ pc \in {"fetch", "text", "done"}) =>
        /\ HookOutcome.t \in {"undef", "value"} => req = built
        /\ HookOutcome.t = "request" => req = HookOutcome.v
        /\ built = buildRequestFromArgv(call.variant, minimist(call.argvRaw, AdaptOpts),
                                        InnerOptions)

\* C14 witness: a hook gave a value that is no Request and the built
\* request, which has a JSON body, went to app.fetch
C14_Witness ==
    /\ call.fn = "adaptAndFetch" /\ pc = "fetch"
    /\ hooks # <<>> /\ HookOutcome.t = "value"
    /\ req = built /\ req.body.t = "str"

\* C15 (as claimed): commandFromArgv returns the first positional segment
\* of the parsed args, whatever the options are (a non-empty base
\* included), and undefined when there is no positional segment.
C15_FirstPositionalSegment ==
    (call.fn = "commandFromArgv" /\ pc = "done") =>
        LET Segment(v) == ~IsNullish(v) /\ String(v) # <<>>
            pos == SelectSeq(Get(call.argv, K_pos).a, Segment)
        IN  IF pos = <<>> THEN ret = Undef
            ELSE ret = Str(String(pos[1]))


\* C16: when app.fetch throws or rejects, adaptAndFetch and runCliDefault
\* fail with that same error: app.fetch was invoked exactly once, the error
\* is the one thrown, and no result with a code or lines exists.
C16_FetchErrorPropagates ==
    (call.fn \in {"adaptAndFetch", "runCliDefault"} /\ raised.by = "fetch") =>
        /\ pc = "failed"
        /\ ret = [t |-> "thrown", error |-> raised.error]
        /\ fetches = 1
        /\ res = None /\ cli = None

\* C16 witness: runCliDefault failed with the handler's error after a hook
\* had replaced the request
C16_Witness ==
    /\ call.fn = "runCliDefault" /\ pc = "failed"
    /\ raised.by = "fetch" /\ ret.t = "thrown"
    /\ hooks # <<>> /\ req # built

\* what runCliAndExit has to print: the lines of runCliDefault's result
ExitLines == cli.lines

\* C17: runCliAndExit writes the lines runCliDefault returned to standard
\* output, each followed by one newline, in order (through console.log
\* where the process has no stdout.write); it ends the process only after
\* the last line, with the code runCliDefault returned, and returns that
\* code where the process cannot be ended.
C17_PrintThenExit ==
    (call.fn = "runCliAndExit" /\ pc \in {"write", "exited", "done"}) =>
        /\ Len(proc.stdout) + Len(proc.console) <= Len(ExitLines)
        /\ call.hasStdout =>
              /\ proc.console = <<>>
              /\ \A i \in 1..Len(proc.stdout) : proc.stdout[i] = Append(ExitLines[i], "\n")
        /\ ~call.hasStdout =>
              /\ proc.stdout = <<>>
              /\ \A i \in 1..Len(proc.console) : proc.console[i] = ExitLines[i]
        /\ pc \in {"exited", "done"} =>
              Len(proc.stdout) + Len(proc.console) = Len(ExitLines)
        /\ pc = "exited" <=> proc.exited
        /\ proc.exited => (call.hasExit /\ proc.code = cli.code)
        /\ pc = "done" => (~call.hasExit /\ ret = Num(cli.code))
        /\ cli.code = IF ListMode(call.argvRaw) THEN 0 ELSE IF res.ok THEN 0 ELSE 1

\* C17 witness: the process was ended with code 0 after the two lines of
\* the GET list were written to standard output
C17_Witness ==
    /\ call.fn = "runCliAndExit" /\ pc = "exited"
    /\ Len(proc.stdout) = 2 /\ proc.stdout[1] # proc.stdout[2]
    /\ proc.code = 0

\* C17 witness: after an unsuccessful response the process was ended with
\* code 1
C17_Witness_Code1 ==
    /\ call.fn = "runCliAndExit" /\ pc = "exited"
    /\ Len(proc.stdout) = 1 /\ proc.code = 1

\* C18: runCliDefault and adaptAndFetch write nothing to standard output or
\* standard error and never end the process, in list mode, on success, on
\* an unsuccessful response and on failure; inside runCliAndExit nothing is
\* written before runCliDefault has returned.
C18_NoOutputSideEffects ==
    /\ call.fn \in {"adaptAndFetch", "runCliDefault"} => proc = FreshProcess
    /\ (call.fn = "runCliAndExit" /\ pc \in {"hook", "fetch", "text", "failed"}) =>
          proc = FreshProcess
    /\ proc.stderr = <<>>

\* C18 witness: runCliDefault returned code 1 and its line for an
\* unsuccessful response, and nothing was written
C18_Witness ==
    /\ call.fn = "runCliDefault" /\ pc = "done"
    /\ ~ListMode(call.argvRaw) /\ ret.code = 1 /\ ret.lines # <<<<>>>>
    /\ proc.stdout = <<>> /\ proc.console = <<>> /\ ~proc.exited

OpenApiDone == call.fn = "listRoutesWithExamplesFromOpenApi" /\ pc = "done"

\* the entries of the called document's paths
C19_Paths ==
    IF IsNullish(call.openapi.paths) THEN <<>> ELSE call.openapi.paths.o

\* the positions in paths of the entries that have a post operation
C19_PostPositions ==
    {i \in 1..Len(C19_Paths) :
        /\ C19_Paths[i][2] # Null
        /\ C19_Paths[i][2].post \notin {Undef, Null}}

\* the position in paths of the k-th entry that has a post operation
C19_Position(k) ==
    CHOOSE i \in C19_PostPositions :
        Cardinality({j \in C19_PostPositions : j <= i}) = k

\* the route of each path of the documents
C19_Route(rawPath) ==
    CASE rawPath = <<"/", "u", "/", "{", "i", "d", "}">> -> <<"/", "u", "/", ":", "i", "d">>
      [] rawPath = <<"/", "{", "b", "}", "/", "{", "c", "}">> -> <<"/", ":", "b", "/", ":", "c">>
      [] rawPath = <<"/", "f", "{", "i", "d", "}">> -> <<"/", "f", ":", "i", "d">>
      [] OTHER -> rawPath

\* the names of the parameters and body properties an item declares
C19_Names(item) ==
    LET own == IF item.parameters = Undef THEN <<>> ELSE item.parameters.a
        op == IF item.post.parameters = Undef THEN <<>> ELSE item.post.parameters.a
        schema == IF item.post.body = Undef THEN Undef ELSE item.post.body.schema
        props == IF schema # Undef /\ item.post.body.ctype = "application/json"
                    /\ schema.type = "object" /\ schema.properties # Undef
                 THEN schema.properties.o ELSE <<>>
    IN  {own[i].name : i \in 1..Len(own)} \cup {op[i].name : i \in 1..Len(op)}
        \cup {props[i][1] : i \in 1..Len(props)}

\* C19: routes, examples and params have the same length, one entry per
\* entry of paths that has a post operation, in the order of paths; the
\* entries without a post operation give nothing, and index i of the three
\* describes the same path.
C19_ParallelArrays ==
    OpenApiDone =>
        /\ Len(ret.routes) = Cardinality(C19_PostPositions)
        /\ Len(ret.examples) = Len(ret.routes)
        /\ Len(ret.params) = Len(ret.routes)
        /\ \A k \in 1..Len(ret.routes) :
              LET entry == C19_Paths[C19_Position(k)]
                  command == buildCommandExample(C19_Route(entry[1]), call.cmdBase)
              IN  /\ ret.routes[k] = C19_Route(entry[1])
                  /\ SubSeq(ret.examples[k], 1, Len(command)) = command
                  /\ {ret.params[k][i].name : i \in 1..Len(ret.params[k])}
                        = C19_Names(entry[2])

\* C19 witness: of two paths the first has no post operation and the
\* second has one with parameters
C19_Witness ==
    /\ OpenApiDone
    /\ Len(C19_Paths) = 2 /\ C19_PostPositions = {2}
    /\ Len(ret.routes) = 1 /\ ret.params[1] # <<>>

\* C20: the parameter list of a path with a post operation holds the
\* path item's parameters in declared order, then the operation's in
\* declared order, then one 'body' descriptor per property of an
\* object-typed JSON request-body schema in property order, required being
\* true exactly for the names in the schema's required array.
C20_ParamOrder ==
    OpenApiDone =>
        \A k \in 1..Len(ret.params) :
            LET item == C19_Paths[C19_Position(k)][2]
                P == ret.params[k]
                own == IF item.parameters = Undef THEN <<>> ELSE item.parameters.a
                op == IF item.post.parameters = Undef THEN <<>> ELSE item.post.parameters.a
                schema == IF item.post.body = Undef THEN Undef ELSE item.post.body.schema
                props == IF schema # Undef /\ item.post.body.ctype = "application/json"
                            /\ schema.type = "object" /\ schema.properties # Undef
                         THEN schema.properties.o ELSE <<>>
                required == IF schema = Undef \/ schema.required = Undef THEN {}
                            ELSE {schema.required.a[i] : i \in 1..Len(schema.required.a)}
            IN  /\ Len(P) = Len(own) + Len(op) + Len(props)
                /\ \A i \in 1..Len(own) :
                      /\ P[i].name = own[i].name /\ P[i].in = own[i].in
                      /\ P[i].required = own[i].required /\ P[i].schema = own[i].schema
                      /\ P[i].description = own[i].description
                /\ \A i \in 1..Len(op) :
                      /\ P[Len(own) + i].name = op[i].name /\ P[Len(own) + i].in = op[i].in
                      /\ P[Len(own) + i].required = op[i].required
                /\ \A i \in 1..Len(props) :
                      LET d == P[Len(own) + Len(op) + i]
                      IN  /\ d.name = props[i][1] /\ d.in = "body"
                          /\ d.required = Bool(props[i][1] \in required)
                          /\ d.schema = props[i][2]

\* C20 witness: a path item's parameter, two parameters of the operation
\* and two body properties, the second of them required, gave five
\* descriptors
C20_Witness ==
    /\ OpenApiDone
    /\ Len(ret.params) >= 1 /\ Len(ret.params[1]) = 5
    /\ ret.params[1][1].in = "path" /\ ret.params[1][3].in = "header"
    /\ ret.params[1][4].required = Bool(FALSE) /\ ret.params[1][5].required = Bool(TRUE)

\* the parameters an item declares, in the order path item, operation,
\* body properties, each with its name and location
DeclaredParams(item) ==
    LET own == IF item.parameters = Undef THEN <<>> ELSE item.parameters.a
        op == IF item.post.parameters = Undef THEN <<>> ELSE item.post.parameters.a
        schema == IF item.post.body = Undef THEN Undef ELSE item.post.body.schema
        props == IF schema # Undef /\ item.post.body.ctype = "application/json"
                    /\ schema.type = "object" /\ schema.properties # Undef
                 THEN schema.properties.o ELSE <<>>
    IN  [i \in 1..Len(own) |-> [name |-> own[i].name, in |-> own[i].in,
                                required |-> own[i].required, declared |-> TRUE]]
        \o [i \in 1..Len(op) |-> [name |-> op[i].name, in |-> op[i].in,
                                  required |-> op[i].required, declared |-> TRUE]]
        \o [i \in 1..Len(props) |-> [name |-> props[i][1], in |-> "body",
                                     required |-> Undef, declared |-> FALSE]]

\* the non-empty '/'-separated segments of a path
PathSegments(path) ==
    LET NonEmpty(x) == x # <<>>
    IN  SelectSeq(SplitOn(path, {"/"}), NonEmpty)

\* the space-separated tokens of an example
ExampleTokens(example) == SplitOn(example, {" "})

RECURSIVE Placeholders(_)
\* the names of the '{name}' placeholders of a path, each from a '{' to the
\* next '}'
Placeholders(s) ==
    IF s = <<>> THEN {}
    ELSE IF Head(s) = "{" /\ \E j \in 2..Len(s) : s[j] = "}"
    THEN LET j == CHOOSE x \in 2..Len(s) : s[x] = "}" /\ \A k \in 2..(x - 1) : s[k] # "}"
         IN  {SubSeq(s, 2, j - 1)} \cup Placeholders(SubSeq(s, j + 1, Len(s)))
    ELSE Placeholders(Tail(s))

\* C22: every '{name}' placeholder of a path appears as ':name' in the
\* route and as a token '<name>' of the example, the placeholder names of
\* the example's path tokens are those of the path, and no path token of
\* the example holds a ':' or a '{name}'.
C22_PlaceholdersSurvive ==
    OpenApiDone =>
        \A k \in 1..Len(ret.examples) :
            LET rawPath == C19_Paths[C19_Position(k)][1]
                tokens == ExampleTokens(ret.examples[k])
                n == Len(PathSegments(rawPath))
                pathTokens == {tokens[1 + i] : i \in 1..n}
                names == Placeholders(rawPath)
                Angled(t) == Len(t) >= 2 /\ Head(t) = "<" /\ t[Len(t)] = ">"
            IN  /\ \A name \in names :
                      /\ Contains(ret.routes[k], <<":">> \o name)
                      /\ <<"<">> \o name \o <<">">> \in pathTokens
                /\ {SubSeq(t, 2, Len(t) - 1) : t \in {u \in pathTokens : Angled(u)}} = names
                /\ \A t \in pathTokens :
                      /\ \A j \in 1..Len(t) : t[j] # ":"
                      /\ Placeholders(t) = {}

\* C23: every descriptor has in among path, query and body, and a boolean
\* required.
C23_InAndRequired ==
    OpenApiDone =>
        \A k \in 1..Len(ret.params) : \A i \in 1..Len(ret.params[k]) :
            /\ ret.params[k][i].in \in {"path", "query", "body"}
            /\ ret.params[k][i].required.t = "bool"

\* C23 as amended: the descriptor of a declared parameter has the
\* parameter's own in and required, whatever they are (required is a
\* boolean or undefined); the descriptor of a body property has in 'body'
\* and a boolean required.
C23_InAndRequiredVerbatim ==
    OpenApiDone =>
        \A k \in 1..Len(ret.params) :
            LET declared == DeclaredParams(C19_Paths[C19_Position(k)][2])
            IN  /\ Len(ret.params[k]) = Len(declared)
                /\ \A i \in 1..Len(declared) :
                      LET d == ret.params[k][i]
                      IN  IF declared[i].declared
                          THEN /\ d.in = declared[i].in
                               /\ d.required = declared[i].required
                               /\ d.required.t \in {"bool", "undef"}
                          ELSE d.in = "body" /\ d.required.t = "bool"

\* C23 witness: a header parameter that declares no required gave a
\* descriptor with in 'header' and required undefined, next to a body
\* descriptor
C23_Witness ==
    /\ OpenApiDone
    /\ \E k \in 1..Len(ret.params) :
          /\ \E i \in 1..Len(ret.params[k]) :
                ret.params[k][i].in = "header" /\ ret.params[k][i].required = Undef
          /\ \E i \in 1..Len(ret.params[k]) : ret.params[k][i].in = "body"

ListRoutesDone == call.fn = "listRoutes" /\ pc = "done"

\* the registry of the listed handler as it is now
C24_Registry ==
    IF call.app = Null THEN <<>>
    ELSE IF call.app.routes = Undef THEN <<>>
    ELSE call.app.routes.a

\* the positions of the registry that hold a route of the variant's method
C24_Positions ==
    {i \in 1..Len(C24_Registry) :
        C24_Registry[i] # Null /\ C24_Registry[i].method = call.variant}

\* C24: a listing returns a list (it does not fail) of the paths of exactly
\* the entries of the handler's registry, as it is at that call, whose
\* method is the variant's, in the order of the registry; it is empty for
\* no handler and for a handler without registry.
C24_ListRoutes ==
    ListRoutesDone =>
        /\ ret.t = "arr"
        /\ Len(ret.a) = Cardinality(C24_Positions)
        /\ \A k \in 1..Len(ret.a) :
              LET i == CHOOSE x \in C24_Positions :
                          Cardinality({j \in C24_Positions : j <= x}) = k
              IN  ret.a[k] = C24_Registry[i].path
        /\ (call.app = Null \/ call.app.routes = Undef) => ret.a = <<>>

\* C24 witness: a second listing, after a route of the variant's method was
\* registered, holds that route's path last
C24_Witness ==
    /\ ListRoutesDone
    /\ Len(C24_Registry) = MaxRoutes
    /\ C24_Registry[MaxRoutes].method = call.variant
    /\ Len(ret.a) >= 2
    /\ ret.a[Len(ret.a)] = <<"/", "n">>

\* C24 witness: a listing for no handler gave the empty list
C24_Witness_NoHandler == ListRoutesDone /\ call.app = Null /\ ret.a = <<>>

\* the calls that dispatch to the handler
DispatchCall == call.fn \in {"adaptAndFetch", "runCliDefault", "runCliAndExit"}

\* C25: in a dispatching call the request is built first; while a hook is
\* pending app.fetch has not been invoked; app.fetch is invoked at most
\* once, and once invoked every hook has completed without throwing; a hook
\* that threw means app.fetch is never invoked; a response, and with it the
\* body read and the formatted result, exists only after app.fetch was
\* invoked, exactly once.
C25_StepOrder ==
    DispatchCall =>
        /\ fetches <= 1
        /\ pc = "hook" => fetches = 0 /\ built # None /\ res = None
        /\ fetches = 1 =>
              /\ built # None /\ req # None
              /\ \A i \in 1..Len(hooks) :
                    hooks[i].outcome # None /\ hooks[i].outcome.t # "throw"
        /\ raised.by = "hook" => fetches = 0 /\ res = None /\ pc = "failed"
        /\ pc = "fetch" => fetches = 1 /\ res = None
        /\ res # None => fetches = 1
        /\ pc = "text" => res # None
        /\ (pc = "done" /\ call.fn = "runCliDefault" /\ ret.res # None) =>
              fetches = 1 /\ ret.res = res
        /\ (cli # None /\ cli.res # None) => fetches = 1 /\ cli.res = res

\* C25 witness: runCliDefault returned after a hook completed and app.fetch
\* was invoked once
C25_Witness ==
    /\ call.fn = "runCliDefault" /\ pc = "done"
    /\ Len(hooks) = 1 /\ hooks[1].outcome.t = "request"
    /\ fetches = 1 /\ ret.res = res

\* C25 witness: a hook threw and app.fetch was not invoked
C25_Witness_HookThrew ==
    /\ DispatchCall /\ pc = "failed" /\ raised.by = "hook" /\ fetches = 0

\* how far a call of runCliDefault has come
C26_Rank ==
    CASE pc = "idle" -> 0
      [] pc = "hook" -> 1
      [] pc = "fetch" -> 2
      [] pc = "text" -> 3
      [] OTHER -> 4

\* the result of list mode: code 0, no request, no response, nothing
\* dispatched
C26_ListResult ==
    /\ ListMode(call.argvRaw)
    /\ ret.code = 0 /\ ret.req = None /\ ret.res = None
    /\ fetches = 0 /\ built = None

\* the result of dispatch mode: one line, with the dispatched request and
\* the response
C26_DispatchResult ==
    /\ ~ListMode(call.argvRaw)
    /\ Len(ret.lines) = 1
    /\ ret.req # None /\ ret.req = req
    /\ ret.res # None /\ ret.res = res
    /\ fetches = 1

\* what a returned call of runCliDefault gave: the result of list mode or
\* the result of dispatch mode, never both and nothing else
C26_Returned ==
    (call.fn = "runCliDefault" /\ pc = "done") => (C26_ListResult # C26_DispatchResult)

\* C26: every step of a call of runCliDefault takes it further (idle, hook,
\* fetch, text, returned or failed; never back and never twice the same),
\* so that a call whose fetch and body read complete returns after at most
\* four steps, the body read being the last; and what it returns is the
\* result of exactly one of the two modes.
C26_OneOfTwoModes ==
    /\ []C26_Returned
    /\ [][(call'.fn = "runCliDefault") =>
             /\ C26_Rank' > C26_Rank
             /\ pc' \in {"hook", "fetch", "text", "done", "failed"}
             /\ (pc = "text") => (pc' = "done")]_vars

\* C26 witness: runCliDefault returned in dispatch mode
C26_Witness == call.fn = "runCliDefault" /\ pc = "done" /\ C26_DispatchResult

\* C26 witness: runCliDefault returned in list mode
C26_Witness_List == call.fn = "runCliDefault" /\ pc = "done" /\ C26_ListResult

\* a dispatching call that has built its request
Built == DispatchCall /\ built # None

\* C27: no query parameter of the dispatched request's URL, under any
\* name, carries a value given through --env or -e.
C27_EnvNotInQuery ==
    Built =>
        LET given == Get(minimist(call.argvRaw, AdaptOpts), K_env)
            tokens == SetOf(TokenList(given)) \ {<<>>}
            ps == SearchParams(built.url.search)
        IN  \A i \in 1..Len(ps) : ps[i][2] \notin tokens

\* C28: in runCliDefault's dispatch mode the pathname of the request is the
\* one of the positionals runCliDefault's own parse gives, for which
\* --json, --list and --help take no value.
C28_SamePositionals ==
    (Built /\ call.fn \in {"runCliDefault", "runCliAndExit"}) =>
        built.url.pathname
            = buildUrlFromArgv(minimist(call.argvRaw, RunOpts),
                               DispatchOptions(call.argvRaw, call.options)).pathname

\* C29: in runCliDefault's dispatch mode the pathname of the request is
\* prefixed with options.base when the command line has no --base flag, and
\* with the flag's value when it has one.
C29_BasePrefix ==
    (Built /\ call.fn \in {"runCliDefault", "runCliAndExit"}) =>
        LET flag == Get(minimist(call.argvRaw, RunOpts), K_base)
            base == IF flag = Undef THEN call.options.base ELSE flag
            inner == DispatchOptions(call.argvRaw, call.options)
        IN  built.url.pathname
                = buildUrlFromArgv(minimist(call.argvRaw, AdaptOpts),
                                   [inner EXCEPT !.base = base]).pathname

\* C30: with a keyed table that has no own entry for the command name,
\* adaptAndFetch invokes no hook, does not fail before it reaches
\* app.fetch, and hands the built request to app.fetch unchanged.
C30_NoOwnEntry ==
    (HookCall /\ call.options.beforeFetch.t = "table" /\ built # None) =>
        LET cmd == commandFromArgv(minimist(call.argvRaw, AdaptOpts), NoOptions)
            own == SetOf(call.options.beforeFetch.entries)
        IN  (cmd = Undef \/ cmd.s \notin own) =>
                /\ hooks = <<>>
                /\ raised.by # "hook"
                /\ req # None => req = built

=============================================================================
